---- MODULE Spec2Model ----
(***************************************************************************)
(* Quiz session state machine (pages/Quiz.jsx) and scoring engine          *)
(* (utils/scoring.js) of alpha-hub, with the views that re-grade stored    *)
(* records.                                                                *)
(*                                                                         *)
(* The Quiz component is a React function component: every handler and     *)
(* every timer callback is a closure over the state of the render that     *)
(* created it.  A closure that outlives its render (a settle-delay timer,  *)
(* the continuation of runLive after its await) carries a snapshot of that *)
(* render's state; the model keeps the snapshot with the timer or request. *)
(* One action is one event-loop task: the handler, the re-render it        *)
(* causes, and the effects of that render.                                 *)
(***************************************************************************)
EXTENDS Integers, Sequences, FiniteSets, Bags, TLC

(***************************************************************************)
(* Bounds of the exploration.                                              *)
(***************************************************************************)
\* wall clock resolution: units of Date.now() per second
UnitsPerSec == 1
\* the wall clock is observed up to this many units
MaxNow == 2
\* session-clock interval ticks explored per session
MaxGlobalTicks == 1
\* user gestures explored per session (toggle, typing, Run, Next, Back, Skip, Submit)
MaxInputs == 4

(***************************************************************************)
(* Configuration (config.js) and the inputs of a session build.            *)
(***************************************************************************)
questionsPerAttempt == 30
mcqSeconds == 15
liveSeconds == 20
liveAttemptsLimit == 2
scoringCorrect == 1
scoringWrong == -1
scoringSkipped == 0

\* useState(null): "no value"
NullTime == -1

\* values of a live question's status
Statuses == {"idle", "running", "correct", "incorrect", "timeout", "error"}

\* attempt texts a user can type: empty, whitespace only, code
AttemptTexts == {"", " ", "x"}

\* String.prototype.trim on the strings of the model
Trim(s) == IF s = " " THEN "" ELSE IF s = " a1 " THEN "a1" ELSE s

\* String.prototype.toLowerCase on the strings of the model
ToLowerCase(s) == IF s = "A1" THEN "a1" ELSE IF s = "M1" THEN "m1" ELSE s

\* raw questions: seconds = 0 and tries = 0 stand for "not provided"
M1 == [id |-> "m1", type |-> "mcq", apiId |-> "", seconds |-> 0, tries |-> 0,
       options |-> <<"A", "B", "C">>, correct |-> {"A", "B"}, question |-> "t1"]
M2 == [id |-> "m2", type |-> "mcq", apiId |-> "", seconds |-> 0, tries |-> 0,
       options |-> <<"B">>, correct |-> {"B"}, question |-> "t2"]
L1 == [id |-> "live_a1", type |-> "live", apiId |-> "a1", seconds |-> 1, tries |-> 0,
       options |-> <<>>, correct |-> {}, question |-> ""]
\* the same checker question listed a second time, in another letter case
L1dup == [id |-> "live_A1", type |-> "live", apiId |-> "A1", seconds |-> 2, tries |-> 1,
          options |-> <<>>, correct |-> {}, question |-> ""]

\* a second checker question
L2 == [id |-> "live_b2", type |-> "live", apiId |-> "b2", seconds |-> 2, tries |-> 0,
       options |-> <<>>, correct |-> {}, question |-> ""]

\* QUESTION_POOLS of config.js: the static pools per topic.  The question files are
\* data: here q and git hold one question each and every other topic none
QUESTION_POOLS(t) ==
  CASE t = "q" -> <<M1>>
    [] t = "git" -> <<M2>>
    [] OTHER -> <<>>

\* what GET /ids returns to fetchLiveQuestions
LiveBank == <<L1, L1dup>>

\* topic selections the Home page can pass to the quiz
TopicSelections == {<<"q">>, <<"live">>, <<"git", "live">>, <<"linux", "live">>}

QIds == {"m1", "m2", "live_a1", "live_A1", "live_b2"}

(***************************************************************************)
(* Sequence helpers.                                                       *)
(***************************************************************************)
Range(s) == {s[i] : i \in DOMAIN s}

RECURSIVE SelectSeqBy(_, _)
\* Array.prototype.filter with membership in a set as the predicate
SelectSeqBy(s, keep) ==
  IF s = <<>> THEN <<>>
  ELSE (IF Head(s) \in keep THEN <<Head(s)>> ELSE <<>>) \o SelectSeqBy(Tail(s), keep)

\* every order of the elements of s: what sort(() => Math.random() - 0.5) can return
Permutations_(s) ==
  {p \in [DOMAIN s -> Range(s)] :
     \E f \in [DOMAIN s -> DOMAIN s] :
        /\ \A i, j \in DOMAIN s : i # j => f[i] # f[j]
        /\ \A i \in DOMAIN s : p[i] = s[f[i]]}

RECURSIVE SumSeq(_)
SumSeq(s) == IF s = <<>> THEN 0 ELSE Head(s) + SumSeq(Tail(s))

Min(a, b) == IF a < b THEN a ELSE b
Max(a, b) == IF a > b THEN a ELSE b

(***************************************************************************)
(* State.                                                                  *)
(***************************************************************************)
VARIABLES
  phase,          \* "building": build() is fetching; "quiz": the session is assembled
  mounted,        \* the Quiz component is mounted (FALSE after navigate("/results"))
  topics,         \* location.state.topics
  now,            \* Date.now(), in wall-clock units
  quiz,           \* the React state of the Quiz component and its pending closures
  store,          \* the quizResults collection: the bag of records written by addDoc
  outcomesSeen,   \* history: the kinds of answer POST /check has given per question
  view            \* a page that re-grades a stored record (Results, History, Home, Admin)

vars == <<phase, mounted, topics, now, quiz, store, outcomesSeen, view>>

\* useMemo isLiveOnly
isLiveOnly(t) == Len(t) = 1 /\ t[1] = "live"

\* getQuestionSeconds
getQuestionSeconds(q) ==
  IF q.type = "live" /\ q.seconds > 0 THEN q.seconds
  ELSE IF q.type = "live" THEN liveSeconds ELSE mcqSeconds

\* getAttemptsLimit
getAttemptsLimit(q) == IF q.tries > 0 THEN q.tries ELSE liveAttemptsLimit

\* the state of the render a closure was created in, as far as handleSubmit reads it
Snapshot(s) ==
  [isSubmitting |-> s.isSubmitting,
   liveStatusById |-> s.liveStatusById,
   attemptById |-> s.attemptById,
   liveAttemptsUsedById |-> s.liveAttemptsUsedById,
   selectedById |-> s.selectedById,
   answeredById |-> s.answeredById]

\* no Quiz component was mounted before this one: nothing of it is pending
NoStale ==
  [questions |-> <<>>, currentIndex |-> 0, startedAt |-> NullTime,
   liveStatusById |-> [q \in QIds |-> "idle"],
   timers |-> {}, inflight |-> {}, submits |-> {}]

\* the component state before build() has assembled a session (the useState initial values)
InitialQuiz ==
  [questions |-> <<>>,
   currentIndex |-> 0,
   selectedById |-> [q \in QIds |-> <<>>],
   answeredById |-> [q \in QIds |-> "undefined"],
   attemptById |-> [q \in QIds |-> ""],
   liveStatusById |-> [q \in QIds |-> "idle"],
   liveAttemptsUsedById |-> [q \in QIds |-> 0],
   globalTimeLeft |-> NullTime,
   startedAt |-> NullTime,
   isSubmitting |-> FALSE,
   enteredAtMs |-> 0,
   questionTimeLeftById |-> [q \in QIds |-> NullTime],
   transitionLock |-> FALSE,
   timers |-> {},             \* settle-delay timeouts: the snapshot of their handleSubmit
   inflight |-> {},           \* runLive calls awaiting POST /check
   submits |-> {},            \* handleSubmit calls awaiting the network
   globalTicks |-> 0,         \* session-clock ticks so far
   inputs |-> 0,              \* user gestures so far
   stale |-> NoStale,         \* what the closures of the component mounted before reach
   cursorEnteredAt |-> 0]     \* history: Date.now() when the cursor last moved

\* no record: the value of a page's state before anything is loaded
NoRecord ==
  [reason |-> "", startedAt |-> NullTime, finishedAt |-> NullTime, durationSeconds |-> 0,
   totalQuestions |-> 0, attemptedCount |-> 0, correctCount |-> 0, wrongCount |-> 0,
   skippedCount |-> 0, score |-> 0, results |-> <<>>, statusAtBegin |-> <<>>]

NoCounts == [correct |-> 0, wrong |-> 0, skipped |-> 0, timedOut |-> 0]

NoBreakdown ==
  [total |-> 0, attempted |-> 0, correct |-> 0, wrong |-> 0, skipped |-> 0, timedOut |-> 0]

\* QUIZ_CONFIG of config.js, as far as scoring reads it
QUIZ_CONFIG ==
  [scoring |-> [correct |-> scoringCorrect, wrong |-> scoringWrong,
                skipped |-> scoringSkipped]]

\* no page is open
NoView ==
  [page |-> "none",
   state |-> NoRecord,        \* the record the page loaded
   work |-> <<>>,             \* the copy of its entries the repair pass patches
   next |-> 0,                \* loop index of the repair pass
   jobs |-> {},               \* re-checks the admin workers still have to finish
   shown |-> NoRecord,        \* the record the page renders
   visible |-> FALSE,         \* the page shows points (not its loading screen)
   done |-> FALSE,            \* the repair pass has ended
   plainPending |-> FALSE,    \* Home: the load without repair has not answered yet
   patched |-> {},            \* history: entries a re-check has turned correct
   checked |-> {},            \* history: entries recheckLiveAttempt was called for
   rows |-> <<>>,             \* AdminPanel: the results state, one record per row
   loaded |-> <<>>,           \* history: the rows as getDocs returned them
   patchedRows |-> <<>>,      \* AdminPanel: the clone of the rows the workers patch
   jobList |-> <<>>,          \* AdminPanel: jobs, each the row and the entry to re-check
   cursor |-> 0,              \* AdminPanel: the cursor the workers share
   workers |-> <<>>,          \* AdminPanel: per worker the job it awaits (1-based), 0: returned
   flying |-> {},             \* AdminPanel: jobs whose request has no answer yet
   sent |-> <<>>,             \* history: per job, the requests dispatched for it
   cancelled |-> FALSE,       \* AdminPanel: the cleanup of the repair effect has run
   repairing |-> FALSE,       \* AdminPanel: the repairing indicator
   expanded |-> 0,            \* AdminPanel: the expanded row (1-based), 0: none
   hydrating |-> FALSE,       \* AdminPanel: the hydrate effect awaits fetchLiveFormat
   captured |-> NoRecord,     \* AdminPanel: updatedRow, the copy the hydrate effect took
   prompted |-> {},           \* AdminPanel: rows of the results state that hold a prompt
   counts |-> NoCounts,       \* what deriveCountsFromResults returned
   breakdown |-> NoBreakdown, \* what getDisplayBreakdown returned for state
   other |-> NoBreakdown,     \* what getDisplayBreakdown returned for shown
   policy |-> QUIZ_CONFIG.scoring,   \* the scoring policy points are computed under
   points |-> 0]              \* what calcPointsFromBreakdown returned

Init ==
  /\ phase = "building"
  /\ mounted = TRUE
  /\ topics \in TopicSelections
  /\ now = 0
  /\ quiz = InitialQuiz
  /\ store = EmptyBag
  /\ outcomesSeen = [q \in QIds |-> {}]
  /\ view = NoView

\* the question under the cursor, or a record that is no question
NoQuestion == [id |-> "", type |-> "none", apiId |-> "", seconds |-> 0, tries |-> 0,
               options |-> <<>>, correct |-> {}, question |-> ""]
currentQuestion(s) ==
  IF s.currentIndex + 1 \in DOMAIN s.questions THEN s.questions[s.currentIndex + 1]
  ELSE NoQuestion

totalTimeAllowed(qs) == SumSeq([i \in DOMAIN qs |-> getQuestionSeconds(qs[i])])

IsLast(s) == s.currentIndex >= Len(s.questions) - 1

(***************************************************************************)
(* handleSubmit: the guard and the start of a submission.  snap is the     *)
(* state of the render whose handleSubmit is called; s is the component    *)
(* state at the moment of the call.                                        *)
(***************************************************************************)
handleSubmitGuard(s, snap) ==
  ~snap.isSubmitting /\ Len(s.questions) > 0 /\ s.startedAt # NullTime

handleSubmit(s, snap, reason) ==
  IF ~handleSubmitGuard(s, snap) THEN s
  ELSE [s EXCEPT !.isSubmitting = TRUE,
                 !.submits = @ \cup {[reason |-> reason, snap |-> snap,
                                      statusAtBegin |-> s.liveStatusById,
                                      finishedAt |-> NullTime]}]

\* scheduleAutoAdvance: lock the transition and arm the settle-delay timer, which
\* keeps the handleSubmit of the render that scheduled it
scheduleAutoAdvance(s, snap, qid) ==
  [s EXCEPT !.transitionLock = TRUE,
            !.timers = @ \cup {[snap |-> snap, qid |-> qid]}]

(***************************************************************************)
(* The effects of a render.  old is the state of the previous render, s    *)
(* the state being rendered; every effect reads s, their updates add up.   *)
(***************************************************************************)
\* EnteredEffect that seeds the question clock on every entry
EnteredEffect_Reseeds(old, s, acc) ==
  LET q == currentQuestion(s) IN
  IF s.currentIndex = old.currentIndex /\ q = currentQuestion(old) THEN acc
  ELSE [acc EXCEPT
          !.enteredAtMs = now,
          !.questionTimeLeftById =
             IF q.type = "live"
             THEN [@ EXCEPT ![q.id] = getQuestionSeconds(q)] ELSE @]

\* effect on [currentIndex, currentQuestion]: restart enteredAt, seed the question clock
EnteredEffect(old, s, acc) ==
  LET q == currentQuestion(s) IN
  IF s.currentIndex = old.currentIndex /\ q = currentQuestion(old) THEN acc
  ELSE [acc EXCEPT
          !.enteredAtMs = now,
          !.questionTimeLeftById =
             IF q.type = "live" /\ s.questionTimeLeftById[q.id] = NullTime
             THEN [@ EXCEPT ![q.id] = getQuestionSeconds(q)] ELSE @]

\* effect on [globalTimeLeft, isLiveOnly]: the session clock reached zero
SessionTimeoutEffect(old, s, acc) ==
  IF ~isLiveOnly(topics) /\ s.globalTimeLeft = 0 /\ old.globalTimeLeft # 0
  THEN handleSubmit(acc, Snapshot(s), "timeout")
  ELSE acc

\* effect on the per-question clock: zero on a question that is not done is a timeout
QuestionTimeoutEffect(s, acc) ==
  LET q == currentQuestion(s) IN
  IF /\ q.type = "live"
     /\ s.questionTimeLeftById[q.id] = 0
     /\ s.liveStatusById[q.id] \notin {"correct", "timeout"}
  THEN scheduleAutoAdvance(
         [acc EXCEPT !.liveStatusById = [@ EXCEPT ![q.id] = "timeout"]],
         Snapshot(s), q.id)
  ELSE acc

\* history: the wall-clock time at which the cursor moved to the current question
CursorHistory(old, s, acc) ==
  IF s.currentIndex = old.currentIndex /\ Len(old.questions) > 0 THEN acc
  ELSE [acc EXCEPT !.cursorEnteredAt = now]

Effects(old, s) ==
  CursorHistory(old, s,
    QuestionTimeoutEffect(s,
      SessionTimeoutEffect(old, s,
        EnteredEffect(old, s, s))))

\* navigate("/results") unmounts the component: its state is discarded.  What the
\* pending closures still reach stays: the refs (questions, cursor), startedAt, and
\* the last live status and attempts-used values, which no update changes any more.
\* The count of explored gestures is kept, so that a session taken again stays
\* within MaxInputs
Discarded(s) ==
  [InitialQuiz EXCEPT !.questions = s.questions, !.currentIndex = s.currentIndex,
                      !.startedAt = s.startedAt, !.isSubmitting = s.isSubmitting,
                      !.liveStatusById = s.liveStatusById,
                      !.liveAttemptsUsedById = s.liveAttemptsUsedById,
                      !.timers = s.timers, !.inflight = s.inflight, !.submits = s.submits,
                      !.inputs = s.inputs, !.stale = s.stale]

\* state updates of an unmounted component are dropped; its closures still run
Unmounted(old, s) ==
  [old EXCEPT !.timers = s.timers, !.inflight = s.inflight, !.submits = s.submits]

\* the component state after a task that leaves the handlers' updates s
Rendered(old, s) == IF mounted THEN Effects(old, s) ELSE Unmounted(old, s)

(***************************************************************************)
(* build: assemble the session.                                            *)
(***************************************************************************)
LAST_N == 15

RECURSIVE StaticPool(_)
\* topics.forEach: the static pools of the selected topics, in topic order
StaticPool(ts) ==
  IF ts = <<>> THEN <<>>
  ELSE (IF Head(ts) # "live" THEN QUESTION_POOLS(Head(ts)) ELSE <<>>) \o StaticPool(Tail(ts))

\* LivePool that takes the oldest LAST_N questions instead of the newest
LivePool_OldestFirst(liveQs, rnd) ==
  IF ~isLiveOnly(topics) THEN liveQs
  ELSE IF Len(liveQs) <= questionsPerAttempt THEN liveQs
  ELSE SubSeq(liveQs, 1, Min(LAST_N, Len(liveQs)))
         \o SubSeq(rnd, 1, Min(LAST_N, Len(rnd)))

\* the live part of the pool; rnd is the shuffled rest of a live-only pool
LivePool(liveQs, rnd) ==
  IF ~isLiveOnly(topics) THEN liveQs
  ELSE IF Len(liveQs) <= questionsPerAttempt THEN liveQs
  ELSE SubSeq(liveQs, Max(1, Len(liveQs) - LAST_N + 1), Len(liveQs))
         \o SubSeq(rnd, 1, Min(LAST_N, Len(rnd)))

\* the deduplication key of build's Map
DedupKey(q) ==
  ToLowerCase(Trim(IF q.type = "live" THEN q.apiId
                   ELSE IF q.id # "" THEN q.id ELSE q.question))

\* build without the Map: every question of the pool is kept
Dedupe_KeepAll(pool, seen) == pool

RECURSIVE Dedupe(_, _)
\* pool.forEach with map.has(key): the first occurrence of a key wins
Dedupe(pool, seen) ==
  IF pool = <<>> THEN <<>>
  ELSE IF DedupKey(Head(pool)) \in seen THEN Dedupe(Tail(pool), seen)
  ELSE <<Head(pool)>> \o Dedupe(Tail(pool), seen \cup {DedupKey(Head(pool))})

\* the orders a question's options can be shuffled into
OptionOrders == [{"m1", "m2"} -> Permutations_(M1.options) \cup Permutations_(M2.options)]

\* `q_${qi}`: the id of a question that brings none, by its 0-based position
PositionIds == <<"q_0", "q_1", "q_2">>

\* shuffled.slice(0, sliceCount).map(...) for questionsPerAttempt = n: ids and
\* shuffled options
NormalizedN(shuffled, oo, n) ==
  [i \in 1..Min(n, Len(shuffled)) |->
     LET q == shuffled[i]
         qid == IF q.id # "" THEN q.id ELSE PositionIds[i]
     IN IF q.type = "live" THEN [q EXCEPT !.id = qid, !.options = <<>>]
        ELSE [q EXCEPT !.id = qid,
                       !.options = IF q.id \in DOMAIN oo THEN oo[q.id] ELSE q.options]]

Normalized(shuffled, oo) == NormalizedN(shuffled, oo, questionsPerAttempt)

\* build that seeds the session clock in a live-only session too
Assembled_AlwaysClocked(normalized) ==
  [InitialQuiz EXCEPT
     !.questions = normalized,
     !.startedAt = now,
     !.globalTimeLeft = totalTimeAllowed(normalized),
     !.enteredAtMs = now,
     !.inputs = quiz.inputs,
     !.stale = quiz.stale]

\* the state build() sets once the session is assembled
Assembled(normalized) ==
  [InitialQuiz EXCEPT
     !.questions = normalized,
     !.startedAt = now,
     !.globalTimeLeft = IF isLiveOnly(topics) THEN NullTime ELSE totalTimeAllowed(normalized),
     !.enteredAtMs = now,
     !.inputs = quiz.inputs,
     !.stale = quiz.stale]

Build ==
  /\ phase = "building"
  /\ \E fetched \in {LiveBank, <<>>} :
     \E rnd \in Permutations_(SubSeq(fetched, 1, Max(0, Len(fetched) - LAST_N))) :
       LET pool == StaticPool(topics)
                     \o (IF \E i \in DOMAIN topics : topics[i] = "live"
                         THEN LivePool(fetched, rnd) ELSE <<>>)
           unique == Dedupe(pool, {})
       IN \E shuffled \in Permutations_(unique) :
          \E oo \in OptionOrders :
            /\ \A i \in DOMAIN shuffled :
                 shuffled[i].type = "mcq" => Range(oo[shuffled[i].id]) = Range(shuffled[i].options)
            /\ quiz' = Rendered(quiz, Assembled(Normalized(shuffled, oo)))
  /\ phase' = "quiz"
  /\ UNCHANGED <<mounted, topics, now, store, outcomesSeen, view>>

\* the live question shows no prompt yet: its text is empty or its checker id
PromptMissing(q) ==
  q.type = "live" /\ q.apiId # "" /\ (Trim(q.question) = "" \/ Trim(q.question) = Trim(q.apiId))

\* build's Promise.all(fetchLivePrompt).then: patch the live questions that show no
\* prompt.  The fetches are sent by build and answered once; an answer that patches
\* nothing leaves the state as it is.
PromptsPreloaded ==
  /\ phase = "quiz" /\ mounted
  /\ \E i \in DOMAIN quiz.questions : PromptMissing(quiz.questions[i])
  /\ quiz' = Rendered(quiz,
       [quiz EXCEPT !.questions = [i \in DOMAIN @ |->
          IF PromptMissing(@[i]) THEN [@[i] EXCEPT !.question = "prompt"] ELSE @[i]]])
  /\ UNCHANGED <<phase, mounted, topics, now, store, outcomesSeen, view>>

\* onPromptLoaded: LiveCheckerQuestion has fetched the format of the shown question and
\* reports its prompt, which replaces a different text
OnPromptLoaded ==
  /\ phase = "quiz" /\ mounted
  /\ currentQuestion(quiz).type = "live"
  /\ currentQuestion(quiz).question # "prompt"
  /\ quiz' = Rendered(quiz,
       [quiz EXCEPT !.questions = [i \in DOMAIN @ |->
          IF @[i].id = currentQuestion(quiz).id /\ @[i].question # "prompt"
          THEN [@[i] EXCEPT !.question = "prompt"] ELSE @[i]]])
  /\ UNCHANGED <<phase, mounted, topics, now, store, outcomesSeen, view>>

\* the wall clock advances
AdvanceTime ==
  /\ phase = "quiz" /\ Len(quiz.questions) > 0
  /\ now < MaxNow
  /\ now' = now + 1
  /\ UNCHANGED <<phase, mounted, topics, quiz, store, outcomesSeen, view>>

(***************************************************************************)
(* User input on the shown question.                                       *)
(***************************************************************************)
InSession == phase = "quiz" /\ mounted /\ Len(quiz.questions) > 0

Others == <<phase, mounted, topics, now, store, outcomesSeen, view>>

\* a further user gesture is within the explored bound
InputExplored == quiz.inputs < MaxInputs

\* count a user gesture
Input(s) == [s EXCEPT !.inputs = @ + 1]

\* Array.from(Set) after add/delete: insertion order, no duplicates
Toggled(picked, optionId) ==
  IF optionId \in Range(picked) THEN SelectSeqBy(picked, Range(picked) \ {optionId})
  ELSE Append(picked, optionId)

toggleOption(s, questionId, optionId) ==
  [s EXCEPT !.selectedById = [@ EXCEPT ![questionId] = Toggled(@, optionId)]]

ToggleOption ==
  /\ InSession
  /\ currentQuestion(quiz).type = "mcq"
  /\ InputExplored
  /\ \E o \in Range(currentQuestion(quiz).options) :
       quiz' = Rendered(quiz, Input(toggleOption(quiz, currentQuestion(quiz).id, o)))
  /\ UNCHANGED Others

attemptsLeft(s, q) == Max(0, getAttemptsLimit(q) - s.liveAttemptsUsedById[q.id])

\* onAttemptChange; the textarea is disabled when no attempts are left
TypeAttempt ==
  /\ InSession
  /\ currentQuestion(quiz).type = "live"
  /\ attemptsLeft(quiz, currentQuestion(quiz)) > 0
  /\ InputExplored
  /\ \E text \in AttemptTexts :
       /\ text # quiz.attemptById[currentQuestion(quiz).id]
       /\ quiz' = Rendered(quiz,
            Input([quiz EXCEPT !.attemptById = [@ EXCEPT ![currentQuestion(quiz).id] = text]]))
  /\ UNCHANGED Others

(***************************************************************************)
(* runLive: up to the await of POST /check, and its continuation.          *)
(***************************************************************************)
\* runLive whose limit branch only reports the error
runLive_NoSettle(s, q, outcome) ==
  LET qid == q.id
      limit == getAttemptsLimit(q)
      used == s.liveAttemptsUsedById[qid]
      setStatus(st) == [s EXCEPT !.liveStatusById = [@ EXCEPT ![qid] = st]]
  IN
  IF s.liveStatusById[qid] \in {"correct", "timeout"} THEN s
  ELSE IF used >= limit THEN setStatus("error")
  ELSE IF Trim(s.attemptById[qid]) = "" THEN setStatus("error")
  ELSE IF q.apiId = "" THEN setStatus("error")
  ELSE [setStatus("running") EXCEPT
          !.inflight = @ \cup {[qid |-> qid, used |-> used, limit |-> limit,
                                attempt |-> Trim(s.attemptById[qid]),
                                outcome |-> outcome, snap |-> Snapshot(s)]}]

runLive(s, q, outcome) ==
  LET qid == q.id
      limit == getAttemptsLimit(q)
      used == s.liveAttemptsUsedById[qid]
      setStatus(st) == [s EXCEPT !.liveStatusById = [@ EXCEPT ![qid] = st]]
  IN
  IF s.liveStatusById[qid] \in {"correct", "timeout"} THEN s
  ELSE IF used >= limit THEN scheduleAutoAdvance(setStatus("error"), Snapshot(s), qid)
  ELSE IF Trim(s.attemptById[qid]) = "" THEN setStatus("error")
  ELSE IF q.apiId = "" THEN setStatus("error")
  ELSE [setStatus("running") EXCEPT
          !.inflight = @ \cup {[qid |-> qid, used |-> used, limit |-> limit,
                                attempt |-> Trim(s.attemptById[qid]),
                                outcome |-> outcome, snap |-> Snapshot(s)]}]

\* Run (button or Enter); disabled while running or when no attempts are left.
\* The answer POST /check will give is fixed with the request.
RunLive ==
  /\ InSession
  /\ currentQuestion(quiz).type = "live"
  /\ quiz.liveStatusById[currentQuestion(quiz).id] # "running"
  /\ attemptsLeft(quiz, currentQuestion(quiz)) > 0
  /\ InputExplored
  /\ \E outcome \in {"Success", "Fail", "error"} :
       quiz' = Rendered(quiz, Input(runLive(quiz, currentQuestion(quiz), outcome)))
  /\ UNCHANGED Others

\* runLiveResume with the catch branch counting the attempt
runLiveResume_CountsErrors(s, r) ==
  [s EXCEPT !.liveStatusById = [@ EXCEPT ![r.qid] = "error"],
            !.liveAttemptsUsedById = [@ EXCEPT ![r.qid] = r.used + 1]]

\* runLiveResume that counts only the failed attempts
runLiveResume_SuccessUncounted(s, r) ==
  LET setStatus(t, st) == [t EXCEPT !.liveStatusById = [@ EXCEPT ![r.qid] = st]]
      nextUsed == r.used + 1
      counted == [s EXCEPT !.liveAttemptsUsedById = [@ EXCEPT ![r.qid] = nextUsed]]
  IN
  IF r.outcome = "error" THEN setStatus(s, "error")
  ELSE IF r.outcome = "Success"
       THEN scheduleAutoAdvance(setStatus(s, "correct"), r.snap, r.qid)
  ELSE IF nextUsed >= r.limit
       THEN scheduleAutoAdvance(setStatus(counted, "incorrect"), r.snap, r.qid)
  ELSE setStatus(counted, "incorrect")

\* the continuation of runLive after the await: r.used, r.limit and r.snap are the
\* values of the render in which Run was invoked
runLiveResume(s, r) ==
  LET setStatus(t, st) == [t EXCEPT !.liveStatusById = [@ EXCEPT ![r.qid] = st]]
      nextUsed == r.used + 1
      counted == [s EXCEPT !.liveAttemptsUsedById = [@ EXCEPT ![r.qid] = nextUsed]]
  IN
  IF r.outcome = "error" THEN setStatus(s, "error")
  ELSE IF r.outcome = "Success"
       THEN scheduleAutoAdvance(setStatus(counted, "correct"), r.snap, r.qid)
  ELSE IF nextUsed >= r.limit
       THEN scheduleAutoAdvance(setStatus(counted, "incorrect"), r.snap, r.qid)
  ELSE setStatus(counted, "incorrect")

CheckerResponds ==
  /\ phase = "quiz"
  /\ \E r \in quiz.inflight :
       /\ quiz' = Rendered(quiz, runLiveResume([quiz EXCEPT !.inflight = @ \ {r}], r))
       /\ outcomesSeen' = IF mounted
                          THEN [outcomesSeen EXCEPT ![r.qid] = @ \cup {r.outcome}]
                          ELSE outcomesSeen
  /\ UNCHANGED <<phase, mounted, topics, now, store, view>>

(***************************************************************************)
(* The two countdowns.                                                     *)
(***************************************************************************)
\* the setInterval of the per-question clock runs
QuestionClockRuns(s) ==
  LET q == currentQuestion(s) IN
  /\ q.type = "live"
  /\ s.liveStatusById[q.id] \notin {"correct", "timeout"}
  /\ s.questionTimeLeftById[q.id] > 0
  /\ ~s.transitionLock

TickQuestion ==
  /\ InSession
  /\ QuestionClockRuns(quiz)
  /\ quiz' = Rendered(quiz,
       [quiz EXCEPT !.questionTimeLeftById =
          [@ EXCEPT ![currentQuestion(quiz).id] = Max(0, @ - 1)]])
  /\ UNCHANGED Others

\* the setInterval of the session clock runs
SessionClockRuns(s) ==
  ~isLiveOnly(topics) /\ s.globalTimeLeft # NullTime /\ s.globalTimeLeft > 0

TickGlobal ==
  /\ InSession
  /\ SessionClockRuns(quiz)
  /\ quiz.globalTicks < MaxGlobalTicks
  /\ quiz' = Rendered(quiz,
       [quiz EXCEPT !.globalTimeLeft = IF @ > 0 THEN @ - 1 ELSE 0,
                    !.globalTicks = @ + 1])
  /\ UNCHANGED Others

(***************************************************************************)
(* Navigation.                                                             *)
(***************************************************************************)
\* nextDisabled of the render
nextDisabled(s) ==
  LET q == currentQuestion(s) IN
  IF q.type = "live"
  THEN \/ /\ s.liveStatusById[q.id] # "correct"
          /\ attemptsLeft(s, q) # 0
          /\ s.liveStatusById[q.id] # "timeout"
       \/ s.transitionLock
  ELSE s.transitionLock \/ Len(s.selectedById[q.id]) = 0

goNext(s) ==
  LET q == currentQuestion(s)
      t == IF q.type = "mcq"
           THEN [s EXCEPT !.answeredById = [@ EXCEPT ![q.id] = "true"]] ELSE s
  IN IF s.currentIndex < Len(s.questions) - 1
     THEN [t EXCEPT !.currentIndex = @ + 1] ELSE t

\* the Next button is shown on every question but the last
GoNext ==
  /\ InSession
  /\ ~IsLast(quiz) /\ ~nextDisabled(quiz) /\ ~quiz.isSubmitting
  /\ InputExplored
  /\ quiz' = Rendered(quiz, Input(goNext(quiz)))
  /\ UNCHANGED Others

goBack(s) == IF s.currentIndex > 0 THEN [s EXCEPT !.currentIndex = @ - 1] ELSE s

GoBack ==
  /\ InSession
  /\ quiz.currentIndex # 0 /\ ~quiz.isSubmitting /\ ~quiz.transitionLock
  /\ InputExplored
  /\ quiz' = Rendered(quiz, Input(goBack(quiz)))
  /\ UNCHANGED Others

\* Math.max(0, Math.ceil(qSec - elapsed)) with elapsed = (Date.now() - enteredAtMs) / 1000
remainingForThisQ(qSec, enteredAt) ==
  Max(0, qSec - ((now - enteredAt) \div UnitsPerSec))

skipQuestion(s) ==
  LET q == currentQuestion(s)
      t == IF q.type = "mcq"
           THEN [s EXCEPT !.answeredById = [@ EXCEPT ![q.id] = "false"]] ELSE s
      u == IF ~isLiveOnly(topics)
           THEN [t EXCEPT !.globalTimeLeft =
                   Max(0, (IF @ = NullTime THEN 0 ELSE @)
                          - remainingForThisQ(getQuestionSeconds(q), s.enteredAtMs))]
           ELSE t
  IN IF s.currentIndex >= Len(s.questions) - 1 THEN s
     ELSE [u EXCEPT !.currentIndex = @ + 1]

SkipQuestion ==
  /\ InSession
  /\ ~quiz.transitionLock /\ ~quiz.isSubmitting
  /\ ~IsLast(quiz)
  /\ InputExplored
  /\ quiz' = Rendered(quiz, Input(skipQuestion(quiz)))
  /\ UNCHANGED Others

\* the Submit button is shown on the last question
SubmitClick ==
  /\ InSession
  /\ IsLast(quiz) /\ ~quiz.isSubmitting /\ ~quiz.transitionLock
  /\ InputExplored
  /\ quiz' = Rendered(quiz, Input(handleSubmit(quiz, Snapshot(quiz), "manual")))
  /\ UNCHANGED Others

\* a settle-delay callback that advances without looking at the last index
settleTimeout_AlwaysAdvances(s, t) ==
  [s EXCEPT !.transitionLock = FALSE, !.currentIndex = @ + 1]

\* the callback of the settle-delay timeout: it reads the refs, which follow the state
settleTimeout(s, t) ==
  LET unlocked == [s EXCEPT !.transitionLock = FALSE] IN
  IF IsLast(s) THEN handleSubmit(unlocked, t.snap, "auto-advance")
  ELSE [unlocked EXCEPT !.currentIndex = Min(@ + 1, Len(s.questions) - 1)]

SettleTimerFires ==
  /\ phase = "quiz"
  /\ \E t \in quiz.timers :
       quiz' = Rendered(quiz, settleTimeout([quiz EXCEPT !.timers = @ \ {t}], t))
  /\ UNCHANGED Others

(***************************************************************************)
(* handleSubmit after its awaits: the record and its write.                *)
(***************************************************************************)
\* correctIds: the ids of the options flagged correct, in option order
correctIds(q) == SelectSeqBy(q.options, q.correct)

\* wasAnswered of an mcq question
wasAnswered(q, snap) ==
  IF snap.answeredById[q.id] # "undefined" THEN snap.answeredById[q.id]
  ELSE IF Len(snap.selectedById[q.id]) > 0 THEN "true" ELSE "false"

\* exactMatch without the comparison of the lengths
exactMatch_Superset(picked, correct) ==
  \A id \in Range(correct) : id \in Range(picked)

\* exactMatch of an mcq question
exactMatch(picked, correct) ==
  /\ Len(picked) = Len(correct)
  /\ \A id \in Range(correct) : id \in Range(picked)

\* the branch of the submit loop a question takes: which counter it increments
SubmitClass(q, snap) ==
  IF q.type = "live"
  THEN IF Trim(snap.attemptById[q.id]) = "" THEN "skipped"
       ELSE IF snap.liveStatusById[q.id] = "correct" THEN "correct"
       ELSE "wrong"
  ELSE IF wasAnswered(q, snap) # "true" THEN "skipped"
       ELSE IF exactMatch(snap.selectedById[q.id], correctIds(q)) THEN "correct"
       ELSE "wrong"

\* one element of perQuestionResults
ResultEntry(q, snap) ==
  IF q.type = "live"
  THEN [questionId |-> q.id, type |-> "live", apiId |-> q.apiId,
        attempt |-> snap.attemptById[q.id],
        liveStatus |-> snap.liveStatusById[q.id],
        attemptsUsed |-> snap.liveAttemptsUsedById[q.id],
        attemptsLimit |-> getAttemptsLimit(q),
        seconds |-> getQuestionSeconds(q),
        isCorrect |-> SubmitClass(q, snap) = "correct",
        correctOptionIds |-> <<>>, selectedOptionIds |-> <<>>, wasAnswered |-> "undefined"]
  ELSE [questionId |-> q.id, type |-> "mcq", apiId |-> "",
        attempt |-> "", liveStatus |-> "undefined", attemptsUsed |-> 0, attemptsLimit |-> 0,
        seconds |-> getQuestionSeconds(q),
        isCorrect |-> SubmitClass(q, snap) = "correct",
        correctOptionIds |-> correctIds(q),
        selectedOptionIds |-> snap.selectedById[q.id],
        wasAnswered |-> wasAnswered(q, snap)]

\* QUIZ_CONFIG.scoring[class]
ScoringOf(class) ==
  CASE class = "correct" -> scoringCorrect
    [] class = "wrong" -> scoringWrong
    [] OTHER -> scoringSkipped

CountClass(qs, snap, class) == Cardinality({i \in DOMAIN qs : SubmitClass(qs[i], snap) = class})

\* Math.round(units / UnitsPerSec)
RoundSeconds(units) == (2 * units + UnitsPerSec) \div (2 * UnitsPerSec)

\* finishedAt without the case for a session that timed out
finishedAtOf_AlwaysNow(s, reason) == now

\* finishedAt, taken when handleSubmit resumes after fetching the formats
finishedAtOf(s, reason) ==
  IF reason = "timeout" THEN s.startedAt + totalTimeAllowed(s.questions) * UnitsPerSec
  ELSE now

\* the payload handed to addDoc
Payload(s, sub) ==
  LET qs == s.questions
      skippedCount == CountClass(qs, sub.snap, "skipped")
  IN [reason |-> sub.reason,
      startedAt |-> s.startedAt,
      finishedAt |-> sub.finishedAt,
      durationSeconds |-> Min(RoundSeconds(sub.finishedAt - s.startedAt), totalTimeAllowed(qs)),
      totalQuestions |-> Len(qs),
      attemptedCount |-> Len(qs) - skippedCount,
      correctCount |-> CountClass(qs, sub.snap, "correct"),
      wrongCount |-> CountClass(qs, sub.snap, "wrong"),
      skippedCount |-> skippedCount,
      score |-> SumSeq([i \in DOMAIN qs |-> ScoringOf(SubmitClass(qs[i], sub.snap))]),
      results |-> [i \in DOMAIN qs |-> ResultEntry(qs[i], sub.snap)],
      statusAtBegin |-> sub.statusAtBegin]

\* handleSubmit resumes after its awaits: the payload is built and addDoc writes it;
\* navigate("/results") then unmounts the quiz
SubmitCompletes ==
  /\ phase = "quiz"
  /\ \E sub \in quiz.submits :
       /\ store' = store (+) SetToBag(
            {Payload(quiz, [sub EXCEPT !.finishedAt = finishedAtOf(quiz, sub.reason)])})
       /\ quiz' = Discarded([quiz EXCEPT !.submits = @ \ {sub}])
  /\ mounted' = FALSE
  /\ UNCHANGED <<phase, topics, now, outcomesSeen, view>>

(***************************************************************************)
(* utils/scoring.js: the scoring engine.                                   *)
(***************************************************************************)
\* the loop of deriveCountsFromResults with a timeout counted as a wrong answer
DerivedClass_TimeoutWrong(q) ==
  IF q.type = "live" THEN (IF Trim(q.attempt) = "" THEN "skipped"
                           ELSE IF q.isCorrect THEN "correct" ELSE "wrong")
  ELSE IF q.wasAnswered = "true" /\ q.isCorrect THEN "correct"
  ELSE IF q.wasAnswered = "true" THEN "wrong" ELSE "skipped"

\* the branch of the loop of deriveCountsFromResults an entry takes
DerivedClass(q) ==
  IF (IF q.type = "" THEN "mcq" ELSE q.type) = "live"
  THEN LET st == IF q.liveStatus = "undefined" THEN "idle" ELSE q.liveStatus IN
       IF st = "timeout" THEN "timedOut"
       ELSE IF Trim(q.attempt) = "" THEN "skipped"
       ELSE IF q.isCorrect THEN "correct"
       ELSE "wrong"
  ELSE LET answered == IF q.wasAnswered \in {"true", "false"} THEN q.wasAnswered = "true"
                       ELSE Len(q.selectedOptionIds) > 0
       IN IF ~answered THEN "skipped"
          ELSE IF q.isCorrect THEN "correct"
          ELSE "wrong"

\* deriveCountsFromResults without the continue that ends the live branch: a live
\* entry goes on into the multiple-choice branch, where it has no answer
deriveCountsFromResults_NoContinue(arr) ==
  LET n(class) == Cardinality({i \in DOMAIN arr : DerivedClass(arr[i]) = class})
      live == Cardinality({i \in DOMAIN arr : arr[i].type = "live"})
  IN [correct |-> n("correct"), wrong |-> n("wrong"),
      skipped |-> n("skipped") + live, timedOut |-> n("timedOut")]

deriveCountsFromResults(arr) ==
  LET n(class) == Cardinality({i \in DOMAIN arr : DerivedClass(arr[i]) = class}) IN
  [correct |-> n("correct"), wrong |-> n("wrong"),
   skipped |-> n("skipped"), timedOut |-> n("timedOut")]

countTimedOut(arr) ==
  Cardinality({i \in DOMAIN arr : arr[i].type = "live" /\ arr[i].liveStatus = "timeout"})

\* Number.isFinite(Number(x)) on the values a record field holds
IsFiniteNumber(x) == x \in Int

getAttemptedCount(r) ==
  IF IsFiniteNumber(r.skippedCount) THEN Max(0, r.totalQuestions - r.skippedCount)
  ELSE Max(0, r.totalQuestions - deriveCountsFromResults(r.results).skipped)

\* Number(x ?? fallback) || fallback on a number x: zero gives way to the fallback
OrDefault(x, fallback) == IF x # 0 THEN x ELSE fallback

\* the stored score wins over the stored counts
getPoints(r, quizConfig) ==
  IF IsFiniteNumber(r.score) THEN r.score
  ELSE r.correctCount * OrDefault(quizConfig.scoring.correct, 1)
         + r.wrongCount * OrDefault(quizConfig.scoring.wrong, -1)
         + r.skippedCount * OrDefault(quizConfig.scoring.skipped, 0)

getMaxPointsForAttempt(r, quizConfig) ==
  getAttemptedCount(r) * OrDefault(quizConfig.scoring.correct, 1)

\* getDisplayBreakdown trusting the stored counts whatever entries there are
getDisplayBreakdown_StoredFirst(r) ==
  [total |-> r.totalQuestions,
   attempted |-> Max(0, r.totalQuestions - r.skippedCount),
   correct |-> r.correctCount, wrong |-> r.wrongCount, skipped |-> r.skippedCount,
   timedOut |-> countTimedOut(r.results)]

\* counts derived from the entries when there are entries, stored counts otherwise
getDisplayBreakdown(r) ==
  LET hasResults == Len(r.results) > 0
      derived == deriveCountsFromResults(r.results)
      skipped == IF hasResults THEN derived.skipped ELSE r.skippedCount
  IN [total |-> r.totalQuestions,
      attempted |-> Max(0, r.totalQuestions - skipped),
      correct |-> IF hasResults THEN derived.correct ELSE r.correctCount,
      wrong |-> IF hasResults THEN derived.wrong ELSE r.wrongCount,
      skipped |-> skipped,
      timedOut |-> IF hasResults THEN derived.timedOut ELSE countTimedOut(r.results)]

\* calcPointsFromBreakdown of Results.jsx, History.jsx and Home.jsx
calcPointsFromBreakdown(b, quizConfig) ==
  b.correct * OrDefault(quizConfig.scoring.correct, 1)
    + b.wrong * OrDefault(quizConfig.scoring.wrong, -1)
    + b.skipped * OrDefault(quizConfig.scoring.skipped, 0)

(***************************************************************************)
(* The pages that re-grade a stored record.                                *)
(***************************************************************************)
\* shouldRecheck without the test of the stored status
shouldRecheck_AnyStatus(q) ==
  /\ q.type = "live"
  /\ q.apiId # ""
  /\ Trim(q.attempt) # ""
  /\ q.isCorrect # TRUE

\* shouldRecheck (Results, History, Home) and shouldRecheckLive (AdminPanel)
shouldRecheck(q) ==
  /\ q.type = "live"
  /\ q.apiId # ""
  /\ (IF q.liveStatus = "undefined" THEN "idle" ELSE q.liveStatus) \notin {"timeout", "correct"}
  /\ Trim(q.attempt) # ""
  /\ q.isCorrect # TRUE

\* a patch that sets the status and leaves the flag
Regraded_StatusOnly(q) == [q EXCEPT !.liveStatus = "correct"]

\* the patch of an entry whose re-check answered Success
Regraded(q) == [q EXCEPT !.isCorrect = TRUE, !.liveStatus = "correct"]

\* one turn of the loop of repairAttempt on entry i; ok is what recheckLiveAttempt returns
repairAttempt(v, i, ok) ==
  IF ~shouldRecheck(v.work[i]) THEN [v EXCEPT !.next = i + 1]
  ELSE IF ok
  THEN [v EXCEPT !.work = [@ EXCEPT ![i] = Regraded(@)], !.next = i + 1,
                 !.patched = @ \cup {i}, !.checked = @ \cup {i}]
  ELSE [v EXCEPT !.next = i + 1, !.checked = @ \cup {i}]

\* the points a page shows for record r
PointsOf(page, r) ==
  IF page = "admin" THEN getPoints(r, QUIZ_CONFIG)
  ELSE calcPointsFromBreakdown(getDisplayBreakdown(r), QUIZ_CONFIG)

PointsShown == PointsOf(view.page, view.shown)

ViewOthers == <<phase, mounted, topics, now, quiz, store, outcomesSeen>>

\* a page is opened on a stored record and starts its repair pass
Opened(page, rec) ==
  [NoView EXCEPT !.page = page, !.state = rec, !.work = rec.results, !.next = 1]

\* Results: the record arrives as navigation state; the loading screen stays until
\* the pass has ended
OpenResults ==
  /\ phase = "views" /\ view.page = "none"
  /\ \E rec \in BagToSet(store) : view' = Opened("results", rec)
  /\ UNCHANGED ViewOthers

\* Results: one turn of the loop over the live entries
RecheckResults ==
  /\ view.page = "results" /\ ~view.done /\ view.next \in DOMAIN view.work
  /\ \E ok \in BOOLEAN :
       view' = IF view.work[view.next].type = "live" /\ view.work[view.next].apiId # ""
               THEN repairAttempt(view, view.next, ok)
               ELSE [view EXCEPT !.next = @ + 1]
  /\ UNCHANGED ViewOthers

\* Results: setHydratedResults(updated), setHydrating(false)
HydrateResults ==
  /\ view.page = "results" /\ ~view.done /\ view.next \notin DOMAIN view.work
  /\ view' = [view EXCEPT !.shown = [view.state EXCEPT !.results = view.work],
                           !.visible = TRUE, !.done = TRUE]
  /\ UNCHANGED ViewOthers

\* History: getDocs, then every attempt is repaired before the list is shown
OpenHistory ==
  /\ phase = "views" /\ view.page = "none"
  /\ \E rec \in BagToSet(store) : view' = Opened("history", rec)
  /\ UNCHANGED ViewOthers

RepairHistory ==
  /\ view.page = "history" /\ ~view.done /\ view.next \in DOMAIN view.work
  /\ \E ok \in BOOLEAN : view' = repairAttempt(view, view.next, ok)
  /\ UNCHANGED ViewOthers

\* History: setAttempts(repaired), setRepairing(false), setLoading(false)
ShowHistory ==
  /\ view.page = "history" /\ ~view.done /\ view.next \notin DOMAIN view.work
  /\ view' = [view EXCEPT !.shown = [view.state EXCEPT !.results = view.work],
                           !.visible = TRUE, !.done = TRUE]
  /\ UNCHANGED ViewOthers

\* Home: two effects load the last record, one without and one with the repair
OpenHome ==
  /\ phase = "views" /\ view.page = "none"
  /\ \E rec \in BagToSet(store) :
       view' = [Opened("home", rec) EXCEPT !.plainPending = TRUE]
  /\ UNCHANGED ViewOthers

\* Home: the load without repair answers: setLastResult(raw), setLoadingResult(false)
HomeLoaded ==
  /\ view.page = "home" /\ view.plainPending
  /\ view' = [view EXCEPT !.shown = view.state, !.visible = TRUE, !.plainPending = FALSE]
  /\ UNCHANGED ViewOthers

RepairHome ==
  /\ view.page = "home" /\ ~view.done /\ view.next \in DOMAIN view.work
  /\ \E ok \in BOOLEAN : view' = repairAttempt(view, view.next, ok)
  /\ UNCHANGED ViewOthers

\* Home: setLastResult(repaired), setLoadingResult(false)
ShowHome ==
  /\ view.page = "home" /\ ~view.done /\ view.next \notin DOMAIN view.work
  /\ view' = [view EXCEPT !.shown = [view.state EXCEPT !.results = view.work],
                           !.visible = TRUE, !.done = TRUE]
  /\ UNCHANGED ViewOthers

\* AdminPanel: the rows are shown as loaded; the background repair collects its jobs
OpenAdmin ==
  /\ phase = "views" /\ view.page = "none"
  /\ \E rec \in BagToSet(store) :
       LET jobs == {i \in DOMAIN rec.results : shouldRecheck(rec.results[i])} IN
       view' = [Opened("admin", rec) EXCEPT !.shown = rec, !.visible = TRUE,
                                            !.jobs = jobs, !.done = jobs = {}]
  /\ UNCHANGED ViewOthers

\* AdminPanel: a worker's re-check answers; the workers run side by side, so the
\* answers come in any order
RepairAdmin ==
  /\ view.page = "admin" /\ ~view.done
  /\ \E i \in view.jobs, ok \in BOOLEAN :
       view' = [view EXCEPT
                  !.jobs = @ \ {i},
                  !.checked = @ \cup {i},
                  !.work = IF ok THEN [@ EXCEPT ![i] = Regraded(@)] ELSE @,
                  !.patched = IF ok THEN @ \cup {i} ELSE @]
  /\ UNCHANGED ViewOthers

\* AdminPanel: setResults(patched), setRepairing(false)
ShowAdmin ==
  /\ view.page = "admin" /\ ~view.done /\ view.jobs = {}
  /\ view' = [view EXCEPT !.shown = [view.state EXCEPT !.results = view.work],
                           !.done = TRUE]
  /\ UNCHANGED ViewOthers

\* the user leaves the page: the effect's cleanup sets cancelled, and what is still
\* pending returns without a state update
LeavePage ==
  /\ view.page # "none"
  /\ view' = NoView
  /\ UNCHANGED ViewOthers

\* the sessions whose records the pages are opened on
ViewSessions == {<<L1>>, <<M2, L1>>}

\* the states handleSubmit can write a record from
ViewSnapshots ==
  {[isSubmitting |-> FALSE,
    liveStatusById |-> [q \in QIds |-> IF q = L1.id THEN st ELSE "idle"],
    attemptById |-> [q \in QIds |-> IF q = L1.id THEN text ELSE ""],
    liveAttemptsUsedById |-> [q \in QIds |-> IF q = L1.id THEN used ELSE 0],
    selectedById |-> [q \in QIds |-> IF q = M2.id THEN sel ELSE <<>>],
    answeredById |-> [q \in QIds |-> IF q = M2.id THEN ans ELSE "undefined"]] :
     st \in Statuses, text \in AttemptTexts, used \in 0..liveAttemptsLimit,
     sel \in {<<>>, M2.options}, ans \in {"undefined", "true", "false"}}

\* the records handleSubmit writes for them
WrittenRecords ==
  {Payload([InitialQuiz EXCEPT !.questions = qs, !.startedAt = 0],
           [reason |-> "manual", snap |-> snap,
            statusAtBegin |-> snap.liveStatusById, finishedAt |-> 0]) :
     qs \in ViewSessions, snap \in ViewSnapshots}

\* live entries as the collection can hold them besides: the status is absent or
\* disagrees with the correctness flag
LegacyEntries ==
  {[ResultEntry(L1, [liveStatusById |-> [q \in QIds |-> st],
                     attemptById |-> [q \in QIds |-> text],
                     liveAttemptsUsedById |-> [q \in QIds |-> 0]])
      EXCEPT !.isCorrect = ok] :
     st \in {"undefined", "incorrect"}, text \in {"", "x"}, ok \in BOOLEAN}

\* one-question records that hold them
LegacyRecords ==
  {[NoRecord EXCEPT !.results = <<e>>, !.totalQuestions = 1, !.attemptedCount = 1,
                    !.correctCount = IF e.isCorrect THEN 1 ELSE 0,
                    !.wrongCount = IF e.isCorrect THEN 0 ELSE 1,
                    !.score = IF e.isCorrect THEN scoringCorrect ELSE scoringWrong] :
     e \in LegacyEntries}

InitViews ==
  /\ phase = "views"
  /\ mounted = FALSE
  /\ topics = <<>>
  /\ now = 0
  /\ quiz = InitialQuiz
  /\ store \in {SetToBag({rec}) : rec \in WrittenRecords \cup LegacyRecords}
  /\ outcomesSeen = [q \in QIds |-> {}]
  /\ view = NoView

NextViews ==
  \/ OpenResults
  \/ RecheckResults
  \/ HydrateResults
  \/ OpenHistory
  \/ RepairHistory
  \/ ShowHistory
  \/ OpenHome
  \/ HomeLoaded
  \/ RepairHome
  \/ ShowHome
  \/ OpenAdmin
  \/ RepairAdmin
  \/ ShowAdmin
  \/ LeavePage

SpecViews == InitViews /\ [][NextViews]_vars

(***************************************************************************)
(* The scoring engine on arbitrary entries.                                *)
(***************************************************************************)
\* entries per results array
MaxEntries == 2

\* result entries as a stored record can hold them; "" and "undefined" stand for a
\* field that is absent
ScoringEntries ==
  {[questionId |-> "live_a1", type |-> "live", apiId |-> "a1", attempt |-> text,
    liveStatus |-> st, attemptsUsed |-> 0, attemptsLimit |-> liveAttemptsLimit,
    seconds |-> liveSeconds, isCorrect |-> ok, correctOptionIds |-> <<>>,
    selectedOptionIds |-> <<>>, wasAnswered |-> "undefined"] :
     text \in AttemptTexts, st \in Statuses \cup {"undefined"}, ok \in BOOLEAN}
  \cup
  {[questionId |-> "m2", type |-> type, apiId |-> "", attempt |-> "",
    liveStatus |-> "undefined", attemptsUsed |-> 0, attemptsLimit |-> 0,
    seconds |-> mcqSeconds, isCorrect |-> ok, correctOptionIds |-> <<"B">>,
    selectedOptionIds |-> sel, wasAnswered |-> ans] :
     type \in {"mcq", ""}, ok \in BOOLEAN, sel \in {<<>>, <<"A">>},
     ans \in {"undefined", "true", "false"}}

ResultArrays == UNION {[1..n -> ScoringEntries] : n \in 0..MaxEntries}

InitScoring ==
  /\ phase = "scoring"
  /\ mounted = FALSE
  /\ topics = <<>>
  /\ now = 0
  /\ quiz = InitialQuiz
  /\ store = EmptyBag
  /\ outcomesSeen = [q \in QIds |-> {}]
  /\ view \in {[NoView EXCEPT !.page = "scoring", !.work = arr] : arr \in ResultArrays}

\* deriveCountsFromResults is applied to the array
DeriveCounts ==
  /\ view.page = "scoring" /\ ~view.done
  /\ view' = [view EXCEPT !.counts = deriveCountsFromResults(view.work), !.done = TRUE]
  /\ UNCHANGED ViewOthers

NextScoring == DeriveCounts

SpecScoring == InitScoring /\ [][NextScoring]_vars

(***************************************************************************)
(* getDisplayBreakdown on stored records, legacy records included.         *)
(***************************************************************************)
\* largest stored count of a record
MaxStored == 1

\* one entry per way through the loop of deriveCountsFromResults
BreakdownEntries ==
  {e \in ScoringEntries :
     \/ /\ e.type = "live" /\ e.liveStatus \in {"timeout", "incorrect"}
        /\ e.attempt \in {"", "x"} /\ ~e.isCorrect
     \/ /\ e.type = "mcq" /\ e.wasAnswered \in {"true", "false"}
        /\ e.selectedOptionIds = <<>>}

\* a record as the collection can hold it: the stored totals need not agree with the
\* entries, and a legacy record has no entries
StoredRecord(arr, total, c, w, s) ==
  [NoRecord EXCEPT !.results = arr, !.totalQuestions = total,
                   !.correctCount = c, !.wrongCount = w, !.skippedCount = s,
                   !.attemptedCount = Max(0, total - s),
                   !.score = c * scoringCorrect + w * scoringWrong + s * scoringSkipped]

\* the same record with every stored aggregate changed by d
Restored(r, d) ==
  [r EXCEPT !.correctCount = @ + d, !.wrongCount = @ + d, !.skippedCount = @ + d,
            !.score = @ + d]

InitBreakdown ==
  /\ phase = "breakdown"
  /\ mounted = FALSE
  /\ topics = <<>>
  /\ now = 0
  /\ quiz = InitialQuiz
  /\ store = EmptyBag
  /\ outcomesSeen = [q \in QIds |-> {}]
  /\ \E n \in 0..MaxEntries : \E arr \in [1..n -> BreakdownEntries] :
     \E total \in 0..MaxEntries, c, w, s \in 0..MaxStored, d \in 1..MaxStored :
       view = [NoView EXCEPT !.page = "breakdown",
                             !.state = StoredRecord(arr, total, c, w, s),
                             !.shown = Restored(StoredRecord(arr, total, c, w, s), d)]

\* getDisplayBreakdown is applied to the record and to its copy
ShowBreakdown ==
  /\ view.page = "breakdown" /\ ~view.done
  /\ view' = [view EXCEPT !.breakdown = getDisplayBreakdown(view.state),
                           !.other = getDisplayBreakdown(view.shown),
                           !.done = TRUE]
  /\ UNCHANGED ViewOthers

NextBreakdown == ShowBreakdown

SpecBreakdown == InitBreakdown /\ [][NextBreakdown]_vars

(***************************************************************************)
(* calcPointsFromBreakdown under every scoring policy.                     *)
(***************************************************************************)
\* largest count of a breakdown and largest number of points of a policy
MaxCount == 2
MaxPolicy == 1

\* scoring policies: points per correct, wrong and skipped question
Policies == [correct : -1..MaxPolicy, wrong : -1..MaxPolicy, skipped : -1..MaxPolicy]

InitPoints ==
  /\ phase = "points"
  /\ mounted = FALSE
  /\ topics = <<>>
  /\ now = 0
  /\ quiz = InitialQuiz
  /\ store = EmptyBag
  /\ outcomesSeen = [q \in QIds |-> {}]
  /\ \E c, w, s, t \in 0..MaxCount : \E policy \in Policies :
       view = [NoView EXCEPT
                 !.page = "points", !.policy = policy,
                 !.breakdown = [total |-> c + w + s + t, attempted |-> c + w + t,
                                correct |-> c, wrong |-> w, skipped |-> s, timedOut |-> t]]

\* calcPointsFromBreakdown is applied to the breakdown under the policy
CalcPoints ==
  /\ view.page = "points" /\ ~view.done
  /\ view' = [view EXCEPT
                !.points = calcPointsFromBreakdown(view.breakdown, [scoring |-> view.policy]),
                !.done = TRUE]
  /\ UNCHANGED ViewOthers

NextPoints == CalcPoints

SpecPoints == InitPoints /\ [][NextPoints]_vars

(***************************************************************************)
(* build on arbitrary pools and question counts.                           *)
(***************************************************************************)
\* questions per pool
MaxPool == 3

\* a static question whose id differs from M1's in letter case only, and one
\* that brings no id
M1up == [M1 EXCEPT !.id = "M1"]
NoIdQ == [M2 EXCEPT !.id = "", !.question = "t3"]

\* the pools build can be given
Pools ==
  UNION {[1..k -> {M1, M2, M1up, NoIdQ, L1, L1dup}] : k \in 1..MaxPool}

\* values of QUIZ_CONFIG.questionsPerAttempt: below, at and above the pool sizes
QuestionCounts == {1, 2, questionsPerAttempt}

InitBuild ==
  /\ phase = "pool"
  /\ mounted = TRUE
  /\ topics = <<"git", "live">>
  /\ now = 0
  /\ quiz = InitialQuiz
  /\ store = EmptyBag
  /\ outcomesSeen = [q \in QIds |-> {}]
  /\ \E pool \in Pools, n \in QuestionCounts :
       view = [NoView EXCEPT !.page = "build", !.work = pool, !.next = n]

\* build from the pool on: deduplicate, shuffle, slice, normalise, set the state
Assemble ==
  /\ phase = "pool"
  /\ \E shuffled \in Permutations_(Dedupe(view.work, {})) :
     \E oo \in OptionOrders :
       /\ \A i \in DOMAIN shuffled :
            shuffled[i].id \in DOMAIN oo => Range(oo[shuffled[i].id]) = Range(shuffled[i].options)
       /\ quiz' = Rendered(quiz, Assembled(NormalizedN(shuffled, oo, view.next)))
  /\ phase' = "quiz"
  /\ UNCHANGED <<mounted, topics, now, store, outcomesSeen, view>>

\* after build only the prompt preload and onPromptLoaded call setQuestions
NextBuild ==
  \/ Assemble
  \/ PromptsPreloaded
  \/ OnPromptLoaded

SpecBuild == InitBuild /\ [][NextBuild]_vars

(***************************************************************************)
(* The background repair of AdminPanel: workers over a shared cursor.      *)
(***************************************************************************)
CONCURRENCY == 4

\* rows loaded into the admin panel
MaxRows == 6

\* one-question records: one whose live entry the pass re-checks, one it leaves
AdminRecords ==
  {rec \in WrittenRecords :
     /\ Len(rec.results) = 1
     /\ rec.results[1].attempt = "x" /\ rec.results[1].attemptsUsed = 1
     /\ rec.results[1].liveStatus \in {"incorrect", "correct"}}

RECURSIVE CollectJobs(_, _)
\* the two loops of run() that collect the jobs, from row ri on
CollectJobs(rows, ri) ==
  IF ri > Len(rows) THEN <<>>
  ELSE LET arr == rows[ri].results
           qis == {qi \in DOMAIN arr : shouldRecheck(arr[qi])}
           inRow == [k \in 1..Cardinality(qis) |->
                       [ri |-> ri,
                        qi |-> CHOOSE qi \in qis : Cardinality({x \in qis : x < qi}) = k - 1]]
       IN inRow \o CollectJobs(rows, ri + 1)

\* a worker that dispatches every job that is left, awaiting only the last request
TakeJob_NoAwait(v, w) ==
  IF v.cursor < Len(v.jobList) /\ ~v.cancelled
  THEN [v EXCEPT !.cursor = Len(v.jobList),
                 !.workers = [@ EXCEPT ![w] = Len(v.jobList)],
                 !.flying = @ \cup (v.cursor + 1)..Len(v.jobList),
                 !.sent = [j \in DOMAIN @ |-> IF j > v.cursor THEN @[j] + 1 ELSE @[j]]]
  ELSE [v EXCEPT !.workers = [@ EXCEPT ![w] = 0]]

\* worker w at the head of its loop: it takes jobs[cursor++] and awaits the re-check,
\* or returns
TakeJob(v, w) ==
  IF v.cursor < Len(v.jobList) /\ ~v.cancelled
  THEN [v EXCEPT !.cursor = @ + 1,
                 !.workers = [@ EXCEPT ![w] = v.cursor + 1],
                 !.flying = @ \cup {v.cursor + 1},
                 !.sent = [@ EXCEPT ![v.cursor + 1] = @ + 1]]
  ELSE [v EXCEPT !.workers = [@ EXCEPT ![w] = 0]]

RECURSIVE StartWorkers(_, _)
\* Promise.all(Array.from({ length: CONCURRENCY }, worker)): each worker runs up to
\* its first await before the next one is called
StartWorkers(v, w) ==
  IF w > CONCURRENCY THEN v ELSE StartWorkers(TakeJob(v, w), w + 1)

\* after Promise.all: setResults(patched), setRepairing(false), unless cancelled
PassEnds(v) ==
  IF \E w \in DOMAIN v.workers : v.workers[w] # 0 THEN v
  ELSE IF v.cancelled THEN [v EXCEPT !.done = TRUE]
  ELSE [v EXCEPT !.rows = v.patchedRows, !.repairing = FALSE, !.done = TRUE]

\* the patch of rows in place, without the clone
Patched_InPlace(v, job) ==
  [v EXCEPT !.rows = [@ EXCEPT ![job.ri].results = [@ EXCEPT ![job.qi] = Regraded(@)]]]

\* row.results[job.qi] = {...q, isCorrect: true, liveStatus: correct} on the clone
Patched(v, job) ==
  [v EXCEPT !.patchedRows = [@ EXCEPT ![job.ri].results = [@ EXCEPT ![job.qi] = Regraded(@)]]]

RECURSIVE BagOfSeq(_)
\* the documents of the collection the rows were read from
BagOfSeq(rows) ==
  IF rows = <<>> THEN EmptyBag ELSE SetToBag({Head(rows)}) (+) BagOfSeq(Tail(rows))

\* the admin panel has loaded its rows
InitAdmin ==
  /\ phase = "admin"
  /\ mounted = FALSE
  /\ topics = <<>>
  /\ now = 0
  /\ quiz = InitialQuiz
  /\ outcomesSeen = [q \in QIds |-> {}]
  /\ \E n \in 1..MaxRows : \E rows \in [1..n -> AdminRecords] :
       /\ store = BagOfSeq(rows)
       /\ view = [NoView EXCEPT !.page = "repair", !.rows = rows, !.loaded = rows]

\* the repair effect runs on the loaded rows: run() up to its first await
StartRepair ==
  /\ view.page = "repair" /\ ~view.done /\ view.workers = <<>> /\ ~view.cancelled
  /\ LET jobs == CollectJobs(view.rows, 1) IN
     view' = IF jobs = <<>> THEN [view EXCEPT !.done = TRUE]
             ELSE PassEnds(StartWorkers(
                    [view EXCEPT !.jobList = jobs,
                                 !.repairing = TRUE,
                                 !.patchedRows = view.rows,
                                 !.workers = [w \in 1..CONCURRENCY |-> 0],
                                 !.sent = [j \in DOMAIN jobs |-> 0]], 1))
  /\ UNCHANGED ViewOthers

\* recheckLiveAttempt answers worker w, which patches and goes round its loop
WorkerResumes ==
  /\ view.page = "repair" /\ ~view.done
  /\ \E w \in DOMAIN view.workers, ok \in BOOLEAN :
       /\ view.workers[w] # 0
       /\ LET k == view.workers[w]
              answered == [view EXCEPT !.flying = @ \ {k}]
          IN view' = PassEnds(
               IF view.cancelled THEN [answered EXCEPT !.workers = [@ EXCEPT ![w] = 0]]
               ELSE TakeJob(IF ok THEN Patched(answered, view.jobList[k]) ELSE answered, w))
  /\ UNCHANGED ViewOthers

\* the cleanup of the repair effect: the panel is left, or the results state changes
CancelRepair ==
  /\ view.page = "repair" /\ ~view.done /\ view.workers # <<>> /\ ~view.cancelled
  /\ view' = [view EXCEPT !.cancelled = TRUE]
  /\ UNCHANGED ViewOthers

NextAdmin ==
  \/ StartRepair
  \/ WorkerResumes
  \/ CancelRepair

SpecAdmin == InitAdmin /\ [][NextAdmin]_vars

(***************************************************************************)
(* AdminPanel: the repair pass beside the hydration of an expanded row.    *)
(***************************************************************************)
\* the user expands row k: the hydrate effect runs on [expandedId], copies the row
\* of the results state it was rendered with and awaits fetchLiveFormat
ExpandRow ==
  /\ view.page = "repair" /\ view.expanded = 0
  /\ view.workers # <<>> \/ view.done
  /\ \E k \in DOMAIN view.rows :
       view' = [view EXCEPT !.expanded = k, !.hydrating = TRUE, !.captured = view.rows[k]]
  /\ UNCHANGED ViewOthers

\* fetchLiveFormat answers: setResults(prev => prev.map(x => x.id === expandedId ?
\* updatedRow : x)); the results state changes, so the cleanup of the repair effect
\* runs, and the effect itself returns on repairedOnceRef
HydrateCompletes ==
  /\ view.page = "repair" /\ view.hydrating
  /\ view' = [view EXCEPT !.rows = [@ EXCEPT ![view.expanded] = view.captured],
                           !.prompted = @ \cup {view.expanded},
                           !.hydrating = FALSE,
                           !.cancelled = @ \/ (view.workers # <<>> /\ ~view.done)]
  /\ UNCHANGED ViewOthers

NextHydrate ==
  \/ StartRepair
  \/ WorkerResumes
  \/ ExpandRow
  \/ HydrateCompletes

\* the effects run and the requests are answered
SpecHydrate ==
  /\ InitAdmin
  /\ [][NextHydrate]_vars
  /\ WF_vars(StartRepair)
  /\ WF_vars(WorkerResumes)
  /\ WF_vars(HydrateCompletes)

(***************************************************************************)
(* A second session: the user leaves the results page for a new quiz while *)
(* closures of the Quiz component mounted before are still pending.        *)
(***************************************************************************)
\* what the pending closures of a discarded component reach
StaleOf(s) ==
  [questions |-> s.questions, currentIndex |-> s.currentIndex, startedAt |-> s.startedAt,
   liveStatusById |-> s.liveStatusById,
   timers |-> s.timers, inflight |-> s.inflight, submits |-> s.submits]

\* the discarded component those closures run in
AsQuiz(st) ==
  [InitialQuiz EXCEPT !.questions = st.questions, !.currentIndex = st.currentIndex,
                      !.startedAt = st.startedAt, !.liveStatusById = st.liveStatusById,
                      !.timers = st.timers, !.inflight = st.inflight,
                      !.submits = st.submits]

\* "Retake" on the results page, or Start on the home page: navigate("/quiz") mounts a
\* new Quiz component, whose build starts
Restart ==
  /\ phase = "quiz" /\ ~mounted
  /\ quiz.stale = NoStale
  /\ quiz.timers \cup quiz.inflight \cup quiz.submits # {}
  /\ InputExplored
  /\ quiz' = [InitialQuiz EXCEPT !.stale = StaleOf(quiz), !.inputs = quiz.inputs + 1]
  /\ phase' = "building"
  /\ mounted' = TRUE
  /\ outcomesSeen' = [q \in QIds |-> {}]
  /\ UNCHANGED <<topics, now, store, view>>

\* a settle-delay timeout of the discarded component fires: its state updates are
\* dropped, its handleSubmit runs
StaleTimerFires ==
  /\ \E t \in quiz.stale.timers :
       LET p == AsQuiz([quiz.stale EXCEPT !.timers = @ \ {t}]) IN
       quiz' = [quiz EXCEPT !.stale = StaleOf(Unmounted(p, settleTimeout(p, t)))]
  /\ UNCHANGED Others

\* POST /check answers a runLive of the discarded component
StaleCheckerResponds ==
  /\ \E r \in quiz.stale.inflight :
       LET p == AsQuiz([quiz.stale EXCEPT !.inflight = @ \ {r}]) IN
       quiz' = [quiz EXCEPT !.stale = StaleOf(Unmounted(p, runLiveResume(p, r)))]
  /\ UNCHANGED Others

\* a handleSubmit of the discarded component resumes: addDoc writes its record and
\* navigate("/results") replaces the page, which unmounts the new component
StaleSubmitCompletes ==
  /\ \E sub \in quiz.stale.submits :
       LET p == AsQuiz(quiz.stale) IN
       /\ store' = store (+) SetToBag(
            {Payload(p, [sub EXCEPT !.finishedAt = finishedAtOf(p, sub.reason)])})
       /\ quiz' = [Discarded(quiz) EXCEPT !.stale.submits = @ \ {sub}]
  /\ mounted' = FALSE
  /\ UNCHANGED <<phase, topics, now, outcomesSeen, view>>

\* sessions that are taken again
RestartSelections == {<<"live">>}

InitRestart == Init /\ topics \in RestartSelections

Next ==
  \/ Build
  \/ PromptsPreloaded
  \/ OnPromptLoaded
  \/ AdvanceTime
  \/ ToggleOption
  \/ TypeAttempt
  \/ RunLive
  \/ CheckerResponds
  \/ TickQuestion
  \/ TickGlobal
  \/ GoNext
  \/ GoBack
  \/ SkipQuestion
  \/ SubmitClick
  \/ SettleTimerFires
  \/ SubmitCompletes

Spec == Init /\ [][Next]_vars

\* the steps of a session of live questions, and those of the component before
NextRestart ==
  \/ Build
  \/ PromptsPreloaded
  \/ OnPromptLoaded
  \/ AdvanceTime
  \/ TypeAttempt
  \/ RunLive
  \/ CheckerResponds
  \/ TickQuestion
  \/ SubmitClick
  \/ SettleTimerFires
  \/ SubmitCompletes
  \/ Restart
  \/ StaleTimerFires
  \/ StaleCheckerResponds
  \/ StaleSubmitCompletes

SpecRestart == InitRestart /\ [][NextRestart]_vars

(***************************************************************************)
(* Run when the attempts are used up.  The component file holds two        *)
(* versions: one disables Run from the attemptsLeft prop, the other from   *)
(* an attemptsUsed prop (default 0) that Quiz does not pass, so that Run   *)
(* stays enabled and runLive is called with used >= limit.                 *)
(***************************************************************************)
RunLiveSpent ==
  /\ InSession
  /\ currentQuestion(quiz).type = "live"
  /\ quiz.liveStatusById[currentQuestion(quiz).id] # "running"
  /\ attemptsLeft(quiz, currentQuestion(quiz)) = 0
  /\ InputExplored
  /\ quiz' = Rendered(quiz, Input(runLive(quiz, currentQuestion(quiz), "Fail")))
  /\ UNCHANGED Others

RunSelections == {<<"live">>, <<"git", "live">>}

InitRun == Init /\ topics \in RunSelections

NextRun ==
  \/ Build
  \/ PromptsPreloaded
  \/ OnPromptLoaded
  \/ AdvanceTime
  \/ TypeAttempt
  \/ RunLive
  \/ RunLiveSpent
  \/ CheckerResponds
  \/ TickQuestion
  \/ SubmitClick
  \/ SettleTimerFires
  \/ SubmitCompletes

SpecRun == InitRun /\ [][NextRun]_vars

(***************************************************************************)
(* The live-only pool of a fetched list longer than questionsPerAttempt.   *)
(***************************************************************************)
\* the longest list GET /ids returns here
MaxBank == 32

\* the ids the checker lists, oldest first
BankApiIds ==
  <<"c01", "c02", "c03", "c04", "c05", "c06", "c07", "c08",
   "c09", "c10", "c11", "c12", "c13", "c14", "c15", "c16", "c17", "c18",
   "c19", "c20", "c21", "c22", "c23", "c24", "c25", "c26", "c27", "c28",
   "c29", "c30", "c31", "c32", "c33", "c34">>

\* fetchLiveQuestions: id: `live_${id}`
BankIds ==
  <<"live_c01", "live_c02", "live_c03", "live_c04", "live_c05",
   "live_c06", "live_c07", "live_c08", "live_c09", "live_c10", "live_c11",
   "live_c12", "live_c13", "live_c14", "live_c15", "live_c16", "live_c17",
   "live_c18", "live_c19", "live_c20", "live_c21", "live_c22", "live_c23",
   "live_c24", "live_c25", "live_c26", "live_c27", "live_c28", "live_c29",
   "live_c30", "live_c31", "live_c32", "live_c33", "live_c34">>

\* fetchLiveQuestions: the question made of the i-th listed id
BankQuestion(i) ==
  [id |-> BankIds[i], type |-> "live", apiId |-> BankApiIds[i], seconds |-> 0,
   tries |-> 0, options |-> <<>>, correct |-> {}, question |-> ""]

FetchedLists == {[i \in 1..n |-> BankQuestion(i)] : n \in questionsPerAttempt..MaxBank}

\* [...remaining].sort(() => Math.random() - 0.5): the arrangements of remaining that
\* differ in the LAST_N questions they put first
Arrangements(remaining) ==
  {SelectSeqBy(remaining, first) \o SelectSeqBy(remaining, Range(remaining) \ first) :
     first \in {f \in SUBSET Range(remaining) :
                  Cardinality(f) = Min(LAST_N, Len(remaining))}}

\* the orders of the final shuffle that are explored
Reversed(seq) == [i \in DOMAIN seq |-> seq[Len(seq) + 1 - i]]

InitSample ==
  /\ phase = "fetched"
  /\ mounted = TRUE
  /\ topics = <<"live">>
  /\ now = 0
  /\ quiz = InitialQuiz
  /\ store = EmptyBag
  /\ outcomesSeen = [q \in QIds |-> {}]
  /\ \E liveQs \in FetchedLists :
     \E rnd \in Arrangements(SubSeq(liveQs, 1, Max(0, Len(liveQs) - LAST_N))) :
       view = [NoView EXCEPT !.page = "build", !.rows = liveQs, !.work = rnd]

\* build from the fetched list (view.rows) and the shuffled rest (view.work) to the
\* normalized questions (view.loaded)
SampleLive ==
  /\ phase = "fetched"
  /\ \E shuffled \in {Dedupe(LivePool(view.rows, view.work), {}),
                       Reversed(Dedupe(LivePool(view.rows, view.work), {}))} :
       view' = [view EXCEPT !.loaded = Normalized(shuffled, <<>>)]
  /\ phase' = "sampled"
  /\ UNCHANGED <<mounted, topics, now, quiz, store, outcomesSeen>>

SpecSample == InitSample /\ [][SampleLive]_vars

(***************************************************************************)
(* A live-only session of two checker questions.                           *)
(***************************************************************************)
\* what build collects from the fetched list, in either order
LivePools == {<<L1, L2>>, <<L2>>}

InitLiveOnly ==
  /\ phase = "pool"
  /\ mounted = TRUE
  /\ topics = <<"live">>
  /\ now = 0
  /\ quiz = InitialQuiz
  /\ store = EmptyBag
  /\ outcomesSeen = [q \in QIds |-> {}]
  /\ \E pool \in LivePools :
       view = [NoView EXCEPT !.page = "build", !.work = pool, !.next = questionsPerAttempt]

NextLiveOnly ==
  \/ Assemble
  \/ AdvanceTime
  \/ TypeAttempt
  \/ RunLive
  \/ CheckerResponds
  \/ TickQuestion
  \/ GoNext
  \/ GoBack
  \/ SkipQuestion
  \/ SubmitClick
  \/ SettleTimerFires
  \/ SubmitCompletes

SpecLiveOnly == InitLiveOnly /\ [][NextLiveOnly]_vars

\* the live-only session with a user who navigates and submits but never runs the
\* checker
NextIdle ==
  \/ Assemble
  \/ AdvanceTime
  \/ TickQuestion
  \/ GoNext
  \/ GoBack
  \/ SkipQuestion
  \/ SubmitClick
  \/ SettleTimerFires
  \/ SubmitCompletes

\* the intervals and timeouts of the browser run and the network answers
SpecIdle ==
  /\ InitLiveOnly
  /\ [][NextIdle]_vars
  /\ WF_vars(Assemble)
  /\ WF_vars(TickQuestion)
  /\ WF_vars(SettleTimerFires)
  /\ WF_vars(SubmitCompletes)

\* topic selections with a session clock
ClockedSelections == {<<"q">>, <<"git", "live">>}

InitClocked == Init /\ topics \in ClockedSelections

\* clocked sessions in which the network answers: a handleSubmit that awaits its
\* requests resumes in the end
SpecClocked == InitClocked /\ [][Next]_vars /\ WF_vars(SubmitCompletes)

(***************************************************************************)
(* Properties of the quiz session.                                         *)
(***************************************************************************)
Records == BagToSet(store)

\* the position of a question in the session, 0-based like currentIndex
IndexOf(qid) == CHOOSE i \in 0..Len(quiz.questions) :
                  i + 1 \in DOMAIN quiz.questions => quiz.questions[i + 1].id = qid

\* C1: a session writes at most one result record, whichever of the three submit
\* paths (manual, session timeout, auto-advance) fire and however they interleave
C1_OneRecordPerSession == BagCardinality(store) <= 1

\* C2: in every written record a live entry stores the status the question had when
\* the submission began, and is marked correct exactly when that status is correct
C2_RecordStoresStatusAtSubmit ==
  \A rec \in Records : \A i \in DOMAIN rec.results :
    rec.results[i].type = "live" =>
      /\ rec.results[i].liveStatus = rec.statusAtBegin[rec.results[i].questionId]
      /\ rec.results[i].isCorrect <=> rec.statusAtBegin[rec.results[i].questionId] = "correct"

\* C3: a live question whose status is correct or timeout keeps that status in
\* every later step
C3_TerminalStatusIsFinal ==
  [][\A q \in QIds :
       quiz.liveStatusById[q] \in {"correct", "timeout"}
         => quiz'.liveStatusById[q] = quiz.liveStatusById[q]]_vars

\* C4: a checker response that arrives after the cursor has moved past its question
\* changes neither status nor attempts-used, arms no auto-advance, moves no cursor
\* and starts no submission
C4_LateResponseDiscarded ==
  [][\A r \in quiz.inflight :
       (mounted /\ r \notin quiz'.inflight /\ IndexOf(r.qid) < quiz.currentIndex)
         => /\ quiz'.liveStatusById = quiz.liveStatusById
            /\ quiz'.liveAttemptsUsedById = quiz.liveAttemptsUsedById
            /\ quiz'.timers = quiz.timers
            /\ quiz'.currentIndex = quiz.currentIndex
            /\ quiz'.submits = quiz.submits]_vars

ClaimedRemainder ==
  Max(0, getQuestionSeconds(currentQuestion(quiz))
         - ((now - quiz.cursorEnteredAt) \div UnitsPerSec))

\* C6: a skip of a non-last question, with at least the remainder on the session
\* clock, takes exactly max(0, ceil(allotment - elapsed)) off the session clock,
\* elapsed counted from the moment the cursor entered the question
C6_SkipDebitsRemainder ==
  [][(SkipQuestion /\ ~isLiveOnly(topics) /\ quiz.globalTimeLeft >= ClaimedRemainder)
       => quiz'.globalTimeLeft = quiz.globalTimeLeft - ClaimedRemainder]_vars

\* C8: the aggregates stored in a record are what the scoring engine derives from
\* the record's entries
C8_StoredAggregatesMatchEngine ==
  \A rec \in Records :
    LET d == deriveCountsFromResults(rec.results) IN
    /\ rec.correctCount = d.correct
    /\ rec.wrongCount = d.wrong
    /\ rec.skippedCount = d.skipped
    /\ rec.score = calcPointsFromBreakdown(d, QUIZ_CONFIG)

\* the raw question of an entry
RawQuestion(id) == CHOOSE q \in {M1, M2, L1, L1dup} : q.id = id

\* C10: an answered multiple-choice question is recorded correct exactly when the set
\* of selected options equals the set of correct options
C10_ExactSetMatch ==
  \A rec \in Records : \A i \in DOMAIN rec.results :
    LET e == rec.results[i] IN
    (e.type = "mcq" /\ e.wasAnswered = "true")
      => (e.isCorrect <=> Range(e.selectedOptionIds) = RawQuestion(e.questionId).correct)

\* C10 witness: {A, B} picked as B then A is recorded correct
C10_Witness ==
  \E rec \in Records : \E i \in DOMAIN rec.results :
    /\ rec.results[i].questionId = M1.id
    /\ rec.results[i].selectedOptionIds = <<"B", "A">>
    /\ rec.results[i].wasAnswered = "true"
    /\ rec.results[i].isCorrect

(***************************************************************************)
(* Properties of the scoring engine and of the re-grading pages.           *)
(***************************************************************************)
TimedOutEntries(arr) ==
  {i \in DOMAIN arr : arr[i].type = "live" /\ arr[i].liveStatus = "timeout"}

\* C7: every live entry with status timeout is counted in timedOut and in no other
\* bucket, whatever its attempt text and isCorrect flag
C7_TimeoutOwnBucket ==
  (view.page = "scoring" /\ view.done) =>
    /\ view.counts.timedOut = Cardinality(TimedOutEntries(view.work))
    /\ view.counts.correct + view.counts.wrong + view.counts.skipped
         = Len(view.work) - Cardinality(TimedOutEntries(view.work))

\* C7 witness: the counts of an array holding a timed-out entry that has an attempt
\* and is flagged correct
C7_Witness ==
  /\ view.page = "scoring" /\ view.done
  /\ \E i \in TimedOutEntries(view.work) :
       view.work[i].isCorrect /\ view.work[i].attempt = "x"

\* C9: when a page's repair pass has ended, every entry a re-check turned correct is
\* classified correct and the points shown are those of the stored record plus
\* (correct - wrong) per such entry
C9_RegradeRaisesPoints ==
  (view.page \in {"results", "history", "home", "admin"} /\ view.done /\ view.visible) =>
    /\ \A i \in view.patched : DerivedClass(view.shown.results[i]) = "correct"
    /\ PointsShown = PointsOf(view.page, view.state)
                       + Cardinality(view.patched) * (scoringCorrect - scoringWrong)

\* C11: in every written record a multiple-choice entry is marked unanswered (and so
\* classified skipped) exactly when no option is selected for it
C11_SkippedIffNothingSelected ==
  \A rec \in Records : \A i \in DOMAIN rec.results :
    rec.results[i].type = "mcq" =>
      (rec.results[i].wasAnswered = "false" <=> Len(rec.results[i].selectedOptionIds) = 0)

\* C12: the scoring engine puts every entry of an array in exactly one bucket: the
\* four counts add up to the number of entries
C12_BucketsPartitionEntries ==
  (view.page = "scoring" /\ view.done) =>
    view.counts.correct + view.counts.wrong + view.counts.skipped + view.counts.timedOut
      = Len(view.work)

\* C12 witness: the counts of an array of two entries that fall in different buckets
C12_Witness ==
  /\ view.page = "scoring" /\ view.done /\ Len(view.work) = 2
  /\ view.counts.timedOut = 1 /\ view.counts.wrong = 1

(***************************************************************************)
(* Properties of the displayed breakdown.                                  *)
(***************************************************************************)
\* C13: the displayed breakdown of every record satisfies attempted + skipped = total
C13_AttemptedPlusSkippedIsTotal ==
  (view.page = "breakdown" /\ view.done) =>
    view.breakdown.attempted + view.breakdown.skipped = view.breakdown.total

CountsOf(b) ==
  [correct |-> b.correct, wrong |-> b.wrong, skipped |-> b.skipped, timedOut |-> b.timedOut]

C14_PointsFollowPolicy ==
  (view.page = "points" /\ view.done) =>
    view.points = view.breakdown.correct * view.policy.correct
                    + view.breakdown.wrong * view.policy.wrong
                    + view.breakdown.skipped * view.policy.skipped

\* the sum of the per-question allotments of a record's session, in seconds
AllotmentOf(rec) == SumSeq([i \in DOMAIN rec.results |-> rec.results[i].seconds])

\* C16: in every written record finishedAt - startedAt is at most the sum of the
\* per-question allotments, and durationSeconds lies between 0 and that sum
C16_FinishedAtClamped ==
  \A rec \in Records :
    /\ rec.finishedAt - rec.startedAt <= AllotmentOf(rec) * UnitsPerSec
    /\ 0 <= rec.durationSeconds /\ rec.durationSeconds <= AllotmentOf(rec)

\* the session clock of a session with questions reaches zero in this step, and no
\* submission had started
ClockRunsOut ==
  /\ mounted /\ ~isLiveOnly(topics) /\ Len(quiz'.questions) > 0
  /\ ~quiz.isSubmitting
  /\ quiz.globalTimeLeft # 0 /\ quiz'.globalTimeLeft = 0

TimeoutSubmitPending == \E sub \in quiz.submits : sub.reason = "timeout"

TimeoutRecordWritten == \E rec \in Records : rec.reason = "timeout"

TrulySkipped(arr) ==
  {i \in DOMAIN arr :
     IF arr[i].type = "live"
     THEN Trim(arr[i].attempt) = "" /\ arr[i].liveStatus # "timeout"
     ELSE arr[i].wasAnswered # "true"}

\* C18: in every written record attemptedCount is totalQuestions minus the number of
\* skipped questions; a live question that timed out is attempted, with or without
\* attempt text, and so is a wrong question
C18_AttemptedExcludesOnlySkips ==
  \A rec \in Records :
    rec.attemptedCount = rec.totalQuestions - Cardinality(TrulySkipped(rec.results))

\* the counter the submit loop incremented for an entry, read back from the entry
WrittenClass(e) ==
  IF e.type = "live"
  THEN IF Trim(e.attempt) = "" THEN "skipped"
       ELSE IF e.isCorrect THEN "correct" ELSE "wrong"
  ELSE IF e.wasAnswered # "true" THEN "skipped"
       ELSE IF e.isCorrect THEN "correct" ELSE "wrong"

\* the live entries for which the checker was called and every call ended in an error
OnlyErrors(arr) ==
  {i \in DOMAIN arr : arr[i].type = "live" /\ outcomesSeen[arr[i].questionId] = {"error"}}

\* C19: a live question whose checker calls all ended in an error is not counted as
\* wrong: it adds nothing to the record's wrongCount and score, and the breakdown
\* derived from the record does not count it as wrong
C19_ErrorsAreNotWrong ==
  \A rec \in Records :
    LET arr == rec.results
        judged == DOMAIN arr \ OnlyErrors(arr)
    IN /\ rec.wrongCount = Cardinality({i \in judged : WrittenClass(arr[i]) = "wrong"})
       /\ rec.score = SumSeq([i \in DOMAIN arr |->
                         IF i \in judged THEN ScoringOf(WrittenClass(arr[i])) ELSE 0])
       /\ \A i \in OnlyErrors(arr) : DerivedClass(arr[i]) # "wrong"

\* a stored entry the re-check has nothing to do for
Settled(e) ==
  /\ e.type = "live"
  /\ \/ e.liveStatus \in {"correct", "timeout"}
     \/ e.isCorrect
     \/ Trim(e.attempt) = ""

RawKey(q) ==
  ToLowerCase(Trim(IF q.type = "live" THEN q.apiId
                   ELSE IF q.id \in Range(PositionIds) THEN q.question ELSE q.id))

\* the ids of the session's questions, in order
QuestionIds(s) == [i \in DOMAIN s.questions |-> s.questions[i].id]

\* C21: the assembled session holds min(N, number of distinct deduplication keys of
\* the pool) questions, no two with the same key or the same session id, and the
\* order and membership of the list stay as assembled
C21_SessionAssembled ==
  /\ [](phase = "quiz" /\ view.page = "build" =>
          LET qs == quiz.questions IN
          /\ Len(qs) = Min(view.next, Cardinality({DedupKey(q) : q \in Range(view.work)}))
          /\ \A i, j \in DOMAIN qs :
               i # j => RawKey(qs[i]) # RawKey(qs[j]) /\ qs[i].id # qs[j].id)
  /\ [][phase = "quiz" => QuestionIds(quiz') = QuestionIds(quiz)]_vars

\* C21 witness: a pool with more distinct keys than questions per attempt, with a
\* repeated key, has been assembled and a prompt has been patched in
C21_Witness ==
  /\ phase = "quiz" /\ view.page = "build"
  /\ Cardinality({DedupKey(q) : q \in Range(view.work)}) > view.next
  /\ Cardinality({DedupKey(q) : q \in Range(view.work)}) < Len(view.work)
  /\ \E i \in DOMAIN quiz.questions : quiz.questions[i].question = "prompt"

\* "Wrong answers are given a score of -2"
requiredWrongScore == -2

\* C22: each wrong answer contributes -2 to the score of an attempt
C22_WrongAnswerScoresMinusTwo ==
  \A rec \in Records :
    rec.score = rec.correctCount * scoringCorrect
                  + rec.wrongCount * requiredWrongScore
                  + rec.skippedCount * scoringSkipped

\* a closure of the component mounted before takes this step, in a session that is
\* assembled and running
StaleStep ==
  /\ phase = "quiz" /\ mounted
  /\ quiz.stale # NoStale
  /\ quiz'.stale # quiz.stale

\* C23: a checker response or a settle-delay timer of the previous session leaves the
\* new session as it is: its live statuses, attempts-used, cursor and submission
\* state stay, and the session goes on
C23_StaleClosuresLeaveNewSession ==
  [][StaleStep =>
       /\ quiz'.liveStatusById = quiz.liveStatusById
       /\ quiz'.liveAttemptsUsedById = quiz.liveAttemptsUsedById
       /\ quiz'.currentIndex = quiz.currentIndex
       /\ quiz'.isSubmitting = quiz.isSubmitting
       /\ quiz'.submits = quiz.submits
       /\ mounted']_vars

\* C24: during the admin pass at most CONCURRENCY re-check requests are in flight,
\* no job is dispatched twice, the jobs are dispatched in cursor order without a gap,
\* and a pass that ends without being cancelled has dispatched every job once
C24_BoundedWorkersEachJobOnce ==
  view.page = "repair" =>
    /\ Cardinality(view.flying) <= CONCURRENCY
    /\ \A j \in DOMAIN view.sent : view.sent[j] = (IF j <= view.cursor THEN 1 ELSE 0)
    /\ (view.done /\ ~view.cancelled) => \A j \in DOMAIN view.jobList : view.sent[j] = 1

\* C24 witness: a pass over more jobs than workers has ended without being cancelled
C24_Witness ==
  /\ view.page = "repair" /\ view.done /\ ~view.cancelled
  /\ Len(view.jobList) > CONCURRENCY

\* C25: a pass that was cancelled before its workers had finished shows none of its
\* patches: the results state and the stored records stay as they were loaded
C25_CancelledPassShowsNothing ==
  (view.page = "repair" /\ view.cancelled) =>
    /\ view.rows = view.loaded
    /\ store = BagOfSeq(view.loaded)

\* C25 witness: a pass was cancelled after one of its workers had patched a row, and
\* its workers have all returned
C25_Witness ==
  /\ view.page = "repair" /\ view.cancelled /\ view.done
  /\ view.patchedRows # view.loaded

\* this step is Run on the current live question
RunInvoked ==
  /\ InSession
  /\ currentQuestion(quiz).type = "live"
  /\ \E outcome \in {"Success", "Fail", "error"} :
       quiz' = Rendered(quiz, Input(runLive(quiz, currentQuestion(quiz), outcome)))

\* C26: Run on a live question whose attempt is empty or blank leaves the question's
\* status and attempts-used as they are and dispatches no checker request
C26_BlankRunChangesNothing ==
  [][(RunInvoked /\ Trim(quiz.attemptById[currentQuestion(quiz).id]) = "") =>
       LET qid == currentQuestion(quiz).id IN
       /\ quiz'.liveStatusById[qid] = quiz.liveStatusById[qid]
       /\ quiz'.liveAttemptsUsedById[qid] = quiz.liveAttemptsUsedById[qid]
       /\ quiz'.inflight = quiz.inflight]_vars


\* a Run on the current live question whose attempts are used up and whose status
\* is not terminal
SpentRunInvoked ==
  /\ InSession
  /\ currentQuestion(quiz).type = "live"
  /\ quiz.liveStatusById[currentQuestion(quiz).id] \notin {"correct", "timeout"}
  /\ quiz.liveAttemptsUsedById[currentQuestion(quiz).id]
       >= getAttemptsLimit(currentQuestion(quiz))
  /\ quiz' = Rendered(quiz, Input(runLive(quiz, currentQuestion(quiz), "Fail")))

\* the response to a Run of this render that is incorrect and uses the last attempt
ExhaustingVerdict(s, q) ==
  [qid |-> q.id, used |-> getAttemptsLimit(q) - 1, limit |-> getAttemptsLimit(q),
   attempt |-> Trim(s.attemptById[q.id]), outcome |-> "Fail", snap |-> Snapshot(s)]

\* C27: a Run on a non-terminal live question whose attempts-used has reached the
\* limit dispatches no request, leaves attempts-used unchanged, and arms the same
\* settle-delay auto-advance (transition lock and timer) as an incorrect verdict
\* that exhausts the attempts
C27_SpentRunOnlyAdvances ==
  [][SpentRunInvoked =>
       LET q == currentQuestion(quiz)
           verdict == runLiveResume(quiz, ExhaustingVerdict(quiz, q))
       IN
       /\ quiz'.inflight = quiz.inflight
       /\ quiz'.liveAttemptsUsedById = quiz.liveAttemptsUsedById
       /\ quiz'.timers = verdict.timers
       /\ quiz'.transitionLock = verdict.transitionLock
       /\ quiz'.timers = quiz.timers \cup {[snap |-> Snapshot(quiz), qid |-> q.id]}]_vars

\* a spent Run has armed a settle-delay timer beside the one of the verdict
C27_Witness ==
  /\ InSession
  /\ currentQuestion(quiz).type = "live"
  /\ attemptsLeft(quiz, currentQuestion(quiz)) = 0
  /\ quiz.liveStatusById[currentQuestion(quiz).id] = "error"
  /\ quiz.inflight = {}
  /\ \E t \in quiz.timers :
       /\ t.qid = currentQuestion(quiz).id
       /\ t.snap.liveAttemptsUsedById[t.qid] >= getAttemptsLimit(currentQuestion(quiz))


\* the response r to a Run of this session arrives with a verdict of the checker
VerdictReceived(r) ==
  /\ phase = "quiz" /\ mounted
  /\ r \in quiz.inflight
  /\ r.outcome \in {"Success", "Fail"}
  /\ quiz' = Rendered(quiz, runLiveResume([quiz EXCEPT !.inflight = @ \ {r}], r))

LiveQuestions(s) == {i \in DOMAIN s.questions : s.questions[i].type = "live"}

\* C28: attempts-used of every live question starts at zero, goes up by exactly one
\* with every verdict of the checker (success or not) received in the session and
\* changes at no other step, so it equals the number of verdicts received; and it
\* never exceeds the question's limit (its own positive tries, else the default)
C28_AttemptsCountVerdicts ==
  /\ [](\A i \in LiveQuestions(quiz) :
          /\ quiz.liveAttemptsUsedById[quiz.questions[i].id] >= 0
          /\ quiz.liveAttemptsUsedById[quiz.questions[i].id]
               <= getAttemptsLimit(quiz.questions[i]))
  /\ [](phase = "building" => \A id \in QIds : quiz.liveAttemptsUsedById[id] = 0)
  /\ [][\A id \in QIds :
          IF \E r \in quiz.inflight : r.qid = id /\ VerdictReceived(r)
          THEN quiz'.liveAttemptsUsedById[id] = quiz.liveAttemptsUsedById[id] + 1
          ELSE quiz'.liveAttemptsUsedById[id] = quiz.liveAttemptsUsedById[id]]_vars

\* both attempts of a live question are used: a failed one and then a successful one
C28_Witness ==
  /\ InSession
  /\ \E i \in LiveQuestions(quiz) :
       /\ quiz.liveAttemptsUsedById[quiz.questions[i].id] = getAttemptsLimit(quiz.questions[i])
       /\ getAttemptsLimit(quiz.questions[i]) > 1
       /\ outcomesSeen[quiz.questions[i].id] = {"Fail", "Success"}


\* the settle-delay timer t, armed by a terminal event of the live question t.qid,
\* fires in the mounted session
SettleElapsed(t) ==
  /\ InSession
  /\ t \in quiz.timers
  /\ quiz' = Rendered(quiz, settleTimeout([quiz EXCEPT !.timers = @ \ {t}], t))

\* C29: when the settle delay of a terminal event on the question at index i has
\* elapsed, then if i is not the last index the cursor becomes i + 1 and the event
\* writes no record and starts no submission, and if i is the last index a
\* submission with reason auto-advance is started and the cursor stays at i
C29_SettleAdvancesFromEventIndex ==
  [][\A t \in quiz.timers : SettleElapsed(t) =>
       LET i == IndexOf(t.qid) IN
       IF i < Len(quiz.questions) - 1
       THEN /\ quiz'.currentIndex = i + 1
            /\ quiz'.submits = quiz.submits
            /\ store' = store
       ELSE /\ quiz'.currentIndex = i
            /\ \E sub \in quiz'.submits \ quiz.submits : sub.reason = "auto-advance"]_vars


\* the live questions of the session, by id
LiveById(s) == {s.questions[i].id : i \in LiveQuestions(s)}

QuestionOf(s, id) == s.questions[CHOOSE i \in LiveQuestions(s) : s.questions[i].id = id]

C31_LiveOnlyHasNoSessionClock ==
  isLiveOnly(topics) =>
    /\ quiz.globalTimeLeft = NullTime
    /\ quiz.globalTicks = 0
    /\ ~SessionClockRuns(quiz)
    /\ \A sub \in quiz.submits : sub.reason \in {"manual", "auto-advance"}
    /\ \A rec \in Records : rec.reason \in {"manual", "auto-advance"}

\* a live-only session of two questions was written after the user skipped the
\* first one, time having passed
C31_Witness ==
  /\ isLiveOnly(topics)
  /\ now > 0
  /\ \E rec \in Records :
       /\ rec.totalQuestions = 2
       /\ rec.reason = "auto-advance"
       /\ rec.results[1].liveStatus = "idle"


ApiIdsOf(qs) == {qs[i].apiId : i \in DOMAIN qs}

\* C32: when the fetched live list has more than questionsPerAttempt distinct
\* questions, the session of a live-only quiz holds every one of the LAST_N last
\* fetched questions, is filled up to questionsPerAttempt with questions of the
\* random sample of the remaining ones, and holds no question twice
C32_NewestLiveQuestionsIncluded ==
  (phase = "sampled" /\ Len(view.rows) > questionsPerAttempt) =>
    LET fetched == view.rows
        session == view.loaded
        newest == SubSeq(fetched, Len(fetched) - LAST_N + 1, Len(fetched))
        sample == SubSeq(view.work, 1, Min(LAST_N, Len(view.work)))
    IN /\ ApiIdsOf(newest) \subseteq ApiIdsOf(session)
       /\ Len(session) = questionsPerAttempt
       /\ ApiIdsOf(session) \ ApiIdsOf(newest) \subseteq ApiIdsOf(sample)
       /\ \A i, j \in DOMAIN session :
            i # j => session[i].apiId # session[j].apiId /\ session[i].id # session[j].id

\* a list of questionsPerAttempt + 2 questions was sampled and the oldest question
\* was left out
C32_Witness ==
  /\ phase = "sampled"
  /\ Len(view.rows) = questionsPerAttempt + 2
  /\ BankApiIds[1] \notin ApiIdsOf(view.loaded)
  /\ Len(view.loaded) = questionsPerAttempt


\* C33: in every state of a non-empty session the cursor is an index of the
\* question list: 0 <= currentIndex < number of questions
C33_CursorInRange ==
  Len(quiz.questions) > 0 =>
    quiz.currentIndex >= 0 /\ quiz.currentIndex < Len(quiz.questions)

\* a settle-delay timer has fired on the last question of a session of two, after
\* the user had moved there
C33_Witness ==
  /\ InSession
  /\ Len(quiz.questions) = 2
  /\ quiz.currentIndex = 1
  /\ quiz.inputs > 0
  /\ currentQuestion(quiz).type = "live"
  /\ quiz.liveStatusById[currentQuestion(quiz).id] \in {"correct", "timeout"}
  /\ quiz.timers = {}
  /\ quiz.isSubmitting


\* C34: a settle-delay timer that fires while the current question is not the one
\* whose terminal event armed it neither moves the cursor nor starts a submission
C34_SettleOnlyForItsQuestion ==
  [][\A t \in quiz.timers :
       (SettleElapsed(t) /\ currentQuestion(quiz).id # t.qid) =>
          /\ quiz'.currentIndex = quiz.currentIndex
          /\ quiz'.submits = quiz.submits
          /\ quiz'.isSubmitting = quiz.isSubmitting]_vars


\* C35: every non-empty session writes a result record in the end, with the
\* clocks, the settle timers and the persistence call running and no further
\* action of the user needed
C35_SessionEventuallyRecorded ==
  (phase = "quiz" /\ Len(quiz.questions) > 0) ~> (store # EmptyBag)


\* the live entries of a record whose question had used up its attempts when the
\* submission began, every verdict having been incorrect and the attempt text
\* still being there
SpentIncorrect(arr) ==
  {i \in DOMAIN arr :
     /\ arr[i].type = "live"
     /\ arr[i].attemptsUsed >= arr[i].attemptsLimit
     /\ Trim(arr[i].attempt) # ""
     /\ "Success" \notin outcomesSeen[arr[i].questionId]}

\* C36: a live question that used up its attempts with an incorrect last verdict
\* is wrong in the written record and wrong in the breakdown derived from the
\* record's entries, whatever the user did between the last verdict and the
\* submission
C36_SpentIncorrectIsWrong ==
  \A rec \in Records : \A i \in SpentIncorrect(rec.results) :
    /\ WrittenClass(rec.results[i]) = "wrong"
    /\ DerivedClass(rec.results[i]) = "wrong"


\* a step of a repair pass: the page keeps working on the same record
PassStep == view.page # "none" /\ view'.page = view.page /\ view'.state = view.state

C38_AttemptedFiguresAgree ==
  \A rec \in Records :
    /\ getAttemptedCount(rec) = getDisplayBreakdown(rec).attempted
    /\ getMaxPointsForAttempt(rec, QUIZ_CONFIG)
         = getDisplayBreakdown(rec).attempted * OrDefault(QUIZ_CONFIG.scoring.correct, 1)


\* C39: once the repairing indicator is set it is cleared in the end, with the
\* verdicts of the pass applied to the results state, also when the results state
\* is replaced while the pass runs
C39_RepairEventuallyApplied ==
  view.repairing ~>
    (/\ ~view.repairing
     /\ [k \in DOMAIN view.rows |-> view.rows[k].results]
          = [k \in DOMAIN view.patchedRows |-> view.patchedRows[k].results])


\* a repair pass with jobs has ended and the hydration of the expanded row has answered
BothCompleted ==
  /\ view.page = "repair" /\ view.done /\ view.jobList # <<>>
  /\ view.expanded # 0 /\ ~view.hydrating

\* C40: after the repair pass and the hydration of the expanded row have both
\* completed, in either order, every entry a re-check answered Success for is
\* correct in the results state and the expanded row holds its prompt
C40_HydrationAndRepairKeepBoth ==
  BothCompleted =>
    /\ \A k \in DOMAIN view.rows : view.rows[k].results = view.patchedRows[k].results
    /\ view.expanded \in view.prompted

====
